---------------------------- MODULE Spec2Model ----------------------------
(***************************************************************************)
(* Morpheus DOCA packet path.                                              *)
(*                                                                         *)
(*  - DocaSourceStage::build  (src/stages/doca_source.cpp): the capture    *)
(*    engine's poll / gather / emit loop.                                  *)
(*  - DocaConvertStage        (doca/src/doca_convert_stage.cpp): the       *)
(*    producer on_raw_packet_message, the bounded handoff channel and the  *)
(*    accumulation loop buffer_reader with concat_packet_buffers.          *)
(*  - DocaSourceStage's constructor and DocaRxPipe (doca_rx_pipe.cpp),     *)
(*    the error wrappers DOCA_TRY and RTE_TRY (doca/error.hpp).            *)
(*  - MessageControl (src/messages/control.cpp).                           *)
(*                                                                         *)
(* Each part has its own specification; the variables of the other parts   *)
(* stay at their initial value.                                            *)
(***************************************************************************)
EXTENDS Integers, Sequences, FiniteSets, TLC

VARIABLES
    \* ---- DocaSourceStage::build ----
    src_pc,               \* position of the capture loop
    exit_condition,       \* *(exit_condition->cpu_ptr()), the host-visible exit flag
    semaphore_idx_d,      \* device scalar: the semaphore ring cursor
    packet_count_d,       \* device scalar written by the receive kernel
    packet_size_total_d,  \* device scalar written by the receive kernel
    packet_count,         \* host copy read at line 123
    packet_size_total,    \* host copy read at line 130
    out_bufs,             \* element counts of the per-field device_uvectors of this cycle
    src_subscribed,       \* output.is_subscribed()
    src_downstream,       \* what the downstream observer of the source has received
    cyc,                  \* history: what the current poll cycle has done so far
    recv_after_exit,      \* history: receive-kernel launches made after the flag was set
    fault,                \* history: the runtime failure that has happened, or "none"
    \* ---- DocaConvertStage ----
    cv_now,               \* std::chrono::steady_clock::now()
    upstream,             \* the input observable: "active", "errored" or "completed"
    next_pkt,             \* number of packets the upstream has delivered so far
    prod_pc,              \* position of the input observer (the producer side)
    raw_msg,              \* the RawPacketMessage on_raw_packet_message is working on
    packet_buffer,        \* the packet_data_buffer on_raw_packet_message has built
    m_buffer_channel,     \* the handoff channel: its entries and whether it is closed
    reader_pc,            \* position of buffer_reader
    poll_end,             \* buffer_reader: end of the current window
    ttl,                  \* buffer_reader: ttl_packets, ttl_header_bytes, ttl_payload_bytes,
                          \* ttl_payload_sizes_bytes
    packets,              \* buffer_reader: the pending list
    cv_subscribed,        \* output.is_subscribed() of the convert stage
    cv_downstream,        \* what the downstream observer of the convert stage has received
    written,              \* history: the buffers await_write has put into the channel
    window,               \* history: number of windows buffer_reader has started
    read_log,             \* history: the buffers read, each with the window it was read in
    emit_log,             \* history: the batches sent, each with the window it was sent in
    stream_work,          \* history: which loop has put work on which execution stream
    \* ---- concat_packet_buffers on its own ----
    cc_pc,                \* which of the calls have been made
    cc_in,                \* the three buffers A, B, C
    cc_abc,               \* concat [A, B, C]
    cc_a,                 \* concat [A]
    cc_a_bc,              \* concat [concat [A], B, C]
    \* ---- DocaSourceStage constructor, DocaRxPipe and the hardware objects ----
    hw_pc,                \* position of the constructor / destructor
    source_ip_filter,     \* the source_ip_filter string, as its lexemes
    source_ip,            \* the result of ip_to_int
    holders,              \* the shared_ptr members alive: <<holder, object>> pairs
    hw_objs,              \* Context, ReceiveQueue, SemaphoreRing, FlowPipe: none / live / destroyed
    m_pipe,               \* the basic pipe
    m_root_pipe,          \* the root control pipe
    hw_log,               \* history: the hardware calls made, in order
    \* ---- DOCA_TRY and RTE_TRY inside a constructor ----
    try_pc,               \* "new", the index of the next statement, "returned" or "thrown"
    try_body,             \* the wrapped calls of the constructor: macro, file and line of each
    try_ran,              \* history: the statements executed, each with the status of its call
    exception,            \* the exception that has left the constructor, or NoException
    \* ---- MessageControl ----
    messages,             \* the MessageControl objects: m_config, m_tasks, m_payload, m_cm_type
    mc_last,              \* history: the last call on a message, its argument and its outcome
    mc_written,           \* history: per message, the payload last handed to payload(p)
    \* ---- the receive buffers of a capture cycle, at their real sizes ----
    rx_pc,                \* "idle" before the receive kernel has run, "received" after
    rx_count,             \* the packet count the receive kernel reported
    rx_sizes_end,         \* number of entries of packet_sizes_d the kernel wrote
    rx_bytes_end,         \* number of bytes of packet_buffer_d the kernel wrote
    \* ---- the lock of a data table and the threads that take it ----
    dt_pc,                \* per thread: where it is in get_info or get_mutable_info, or the handle it holds
    m_mutex,              \* the std::shared_mutex of the table: its shared owners and its exclusive owner
    \* ---- PreallocateStage and the messages it is given ----
    pa_pc,                \* where the on_next handler of the stage is, "wait" between two events
    pa_upstream,          \* "active", "errored" or "completed"
    pa_received,          \* number of messages the upstream has emitted
    pa_x,                 \* the message the handler works on: its id and the columns of its table
    pa_locked,            \* the ids of the messages whose table the stage holds the exclusive lock of
    pa_out,               \* history: the events the stage has sent downstream
    \* ---- MultiResponseMessage and its slices ----
    mr_orig,              \* the message that was constructed
    mr_cur,               \* the message reached from it by get_slice
    mr_slices             \* history: the start and stop of every get_slice made, in order

src_vars == << src_pc, exit_condition, semaphore_idx_d, packet_count_d,
               packet_size_total_d, packet_count, packet_size_total,
               out_bufs, src_subscribed, src_downstream, cyc, recv_after_exit, fault >>

cv_vars == << cv_now, upstream, next_pkt, prod_pc, raw_msg, packet_buffer,
              m_buffer_channel, reader_pc, poll_end, ttl, packets, cv_subscribed,
              cv_downstream, written, window, read_log, emit_log, stream_work >>

cc_vars == << cc_pc, cc_in, cc_abc, cc_a, cc_a_bc >>

hw_vars == << hw_pc, source_ip_filter, source_ip, holders, hw_objs, m_pipe,
              m_root_pipe, hw_log >>

try_vars == << try_pc, try_body, try_ran, exception >>

mc_vars == << messages, mc_last, mc_written >>

rx_vars == << rx_pc, rx_count, rx_sizes_end, rx_bytes_end >>

dt_vars == << dt_pc, m_mutex >>

pa_vars == << pa_pc, pa_upstream, pa_received, pa_x, pa_locked, pa_out >>

mr_vars == << mr_orig, mr_cur, mr_slices >>

vars == << src_vars, cv_vars, cc_vars, hw_vars, try_vars, mc_vars, rx_vars, dt_vars, pa_vars, mr_vars >>

\* the variables an action of one part leaves alone
not_mr      == << src_vars, cv_vars, cc_vars, hw_vars, try_vars, mc_vars, rx_vars, dt_vars, pa_vars >>
not_pa      == << src_vars, cv_vars, cc_vars, hw_vars, try_vars, mc_vars, rx_vars, dt_vars, mr_vars >>
not_dt      == << src_vars, cv_vars, cc_vars, hw_vars, try_vars, mc_vars, rx_vars, pa_vars, mr_vars >>
not_source  == << cv_vars, cc_vars, hw_vars, try_vars, mc_vars, rx_vars, dt_vars, pa_vars, mr_vars >>
not_convert == << src_vars, cc_vars, hw_vars, try_vars, mc_vars, rx_vars, dt_vars, pa_vars, mr_vars >>
not_concat  == << src_vars, cv_vars, hw_vars, try_vars, mc_vars, rx_vars, dt_vars, pa_vars, mr_vars >>
not_hw      == << src_vars, cv_vars, cc_vars, try_vars, mc_vars, rx_vars, dt_vars, pa_vars, mr_vars >>
not_try     == << src_vars, cv_vars, cc_vars, hw_vars, mc_vars, rx_vars, dt_vars, pa_vars, mr_vars >>
not_rx      == << src_vars, cv_vars, cc_vars, hw_vars, try_vars, mc_vars, dt_vars, pa_vars, mr_vars >>
not_mc      == << src_vars, cv_vars, cc_vars, hw_vars, try_vars, rx_vars, dt_vars, pa_vars, mr_vars >>

----------------------------------------------------------------------------
(* Bounds of the model *)

\* largest packet count one receive-kernel call reports in the model
MaxRecv == 2
\* largest payload size of one packet in the model
MaxPktLen == 1

\* number of RawPacketMessages the upstream delivers in the model
MaxMsgs == 3
\* largest packet count of one RawPacketMessage in the model
MaxCount == 2
\* largest payload size of one packet of a RawPacketMessage in the model
MaxPld == 1
\* the clock of the model stops at this tick
MaxTime == 4
\* max_time_delta, the length of a window, in ticks
MaxTimeDelta == 2
\* payload_buffer_size, the capacity the handoff channel is built with
ChannelCapacity == 2
\* largest number of lexemes of a source_ip_filter string in the model
MaxFilterLen == 7

(* Program constants *)

\* DocaSemaphore(m_context, 1024): the ring capacity, m_semaphore->size()
SEM_SIZE == 1024

----------------------------------------------------------------------------
RECURSIVE SumSeq(_)
SumSeq(s) == IF s = << >> THEN 0 ELSE Head(s) + SumSeq(Tail(s))

\* all sequences over S of length 0..n
SeqsUpTo(S, n) == UNION { [1..k -> S] : k \in 0..n }

NoBufs == [allocated |-> FALSE]
NewCycle == [recv |-> FALSE, allocs |-> 0, gathers |-> 0, advances |-> 0, emits |-> 0]

----------------------------------------------------------------------------
(***************************************************************************)
(* DocaSourceStage::build                                                  *)
(***************************************************************************)

InitSource ==
    /\ src_pc = "while"
    /\ exit_condition = 0
    /\ semaphore_idx_d = 0
    /\ packet_count_d = 0
    /\ packet_size_total_d = 0
    /\ packet_count = 0
    /\ packet_size_total = 0
    /\ out_bufs = NoBufs
    /\ src_subscribed = TRUE
    /\ src_downstream = [last |-> "none", completed |-> 0]
    /\ cyc = NewCycle
    /\ recv_after_exit = 0
    /\ fault = "none"

\* An external controller writes 1 into the pinned exit cell.
SetExitCondition ==
    /\ exit_condition = 0
    /\ src_pc # "done"
    /\ exit_condition' = 1
    /\ UNCHANGED << src_pc, semaphore_idx_d, packet_count_d, packet_size_total_d,
                    packet_count, packet_size_total, out_bufs,
                    src_subscribed, src_downstream, cyc, recv_after_exit, fault, not_source >>

\* line 101: while (output.is_subscribed()).  packet_count and packet_size_total
\* are locals of the loop body: a new iteration starts without them.
WhileSubscribed ==
    /\ src_pc = "while"
    /\ src_pc' = IF src_subscribed THEN "check_exit" ELSE "destroy"
    /\ packet_count' = 0
    /\ packet_size_total' = 0
    /\ UNCHANGED << exit_condition, semaphore_idx_d, packet_count_d, packet_size_total_d,
                    out_bufs, src_subscribed, src_downstream, cyc, recv_after_exit, fault, not_source >>

CheckExit_NoUnsubscribe ==
    /\ src_pc = "check_exit"
    /\ src_pc' = IF exit_condition = 1 THEN "while" ELSE "receive"
    /\ UNCHANGED << exit_condition, semaphore_idx_d, packet_count_d, packet_size_total_d,
                    packet_count, packet_size_total, out_bufs,
                    src_subscribed, src_downstream, cyc, recv_after_exit, fault, not_source >>

\* lines 103-106: if (exit flag == 1) { output.unsubscribe(); continue; }
CheckExit ==
    /\ src_pc = "check_exit"
    /\ IF exit_condition = 1
         THEN /\ src_subscribed' = FALSE
              /\ src_pc' = "while"
         ELSE /\ src_subscribed' = src_subscribed
              /\ src_pc' = "receive"
    /\ UNCHANGED << exit_condition, semaphore_idx_d, packet_count_d, packet_size_total_d,
                    packet_count, packet_size_total, out_bufs,
                    src_downstream, cyc, recv_after_exit, fault, not_source >>

\* What one receive-kernel call can report: the number of packets it drained and
\* the total of their payload bytes.
packet_receive_kernel ==
    { [count |-> c, size_total |-> t] : c \in 0 .. MaxRecv, t \in 0 .. (MaxRecv * MaxPktLen) }

\* lines 108-119: launch the receive kernel on the processing stream.  The kernel
\* writes packet_count_d, packet_size_total_d (and the raw packet buffers); it reads the cursor.
ReceiveKernel ==
    /\ src_pc = "receive"
    /\ \E r \in packet_receive_kernel :
         /\ r.size_total <= r.count * MaxPktLen
         /\ packet_count_d' = r.count
         /\ packet_size_total_d' = r.size_total
    /\ cyc' = [NewCycle EXCEPT !.recv = TRUE]
    /\ recv_after_exit' = IF exit_condition = 1 THEN recv_after_exit + 1 ELSE recv_after_exit
    /\ out_bufs' = NoBufs
    /\ src_pc' = "sync"
    /\ UNCHANGED << exit_condition, semaphore_idx_d, packet_count, packet_size_total,
                    src_subscribed, src_downstream, fault, not_source >>

AfterCount_NoSkip(count) == "alloc"

\* line 125: where the loop goes after reading the packet count
AfterCount(count) == IF count = 0 THEN "while" ELSE "alloc"

\* lines 121-128: synchronize, read back the packet count, continue when it is 0
SyncCount ==
    /\ src_pc = "sync"
    /\ packet_count' = packet_count_d
    /\ src_pc' = AfterCount(packet_count_d)
    /\ UNCHANGED << exit_condition, semaphore_idx_d, packet_count_d, packet_size_total_d,
                    packet_size_total, out_bufs, src_subscribed,
                    src_downstream, cyc, recv_after_exit, fault, not_source >>

AllocOutputs_offsets_per_packet(count, size_total) ==
    [allocated     |-> TRUE,
     timestamp     |-> count,
     src_mac       |-> count,
     dst_mac       |-> count,
     src_ip        |-> count,
     dst_ip        |-> count,
     src_port      |-> count,
     dst_port      |-> count,
     data_offsets  |-> count,
     data_size     |-> count,
     tcp_flags     |-> count,
     ether_type    |-> count,
     next_proto_id |-> count,
     data          |-> size_total,
     last_offset   |-> size_total]

\* lines 134-146: the element counts of the thirteen per-field output buffers
AllocOutputs(count, size_total) ==
    [allocated     |-> TRUE,
     timestamp     |-> count,
     src_mac       |-> count,
     dst_mac       |-> count,
     src_ip        |-> count,
     dst_ip        |-> count,
     src_port      |-> count,
     dst_port      |-> count,
     data_offsets  |-> count + 1,
     data_size     |-> count,
     tcp_flags     |-> count,
     ether_type    |-> count,
     next_proto_id |-> count,
     data          |-> size_total,
     last_offset   |-> size_total]

\* lines 130-148: read the payload total, allocate the outputs, set the last offset
Allocate ==
    /\ src_pc = "alloc"
    /\ packet_size_total' = packet_size_total_d
    /\ out_bufs' = AllocOutputs(packet_count, packet_size_total_d)
    /\ cyc' = [cyc EXCEPT !.allocs = 13]
    /\ src_pc' = "gather"
    /\ UNCHANGED << exit_condition, semaphore_idx_d, packet_count_d, packet_size_total_d,
                    packet_count, src_subscribed, src_downstream,
                    recv_after_exit, fault, not_source >>

\* lines 150-172: launch the gather kernel
GatherKernel ==
    /\ src_pc = "gather"
    /\ cyc' = [cyc EXCEPT !.gathers = @ + 1]
    /\ src_pc' = "advance"
    /\ UNCHANGED << exit_condition, semaphore_idx_d, packet_count_d, packet_size_total_d,
                    packet_count, packet_size_total, out_bufs,
                    src_subscribed, src_downstream, recv_after_exit, fault, not_source >>

sem_idx_new_nowrap(sem_idx_old) == sem_idx_old + 1

\* line 175
sem_idx_new(sem_idx_old) == (sem_idx_old + 1) % SEM_SIZE

\* lines 174-176: advance the ring cursor
AdvanceCursor ==
    /\ src_pc = "advance"
    /\ semaphore_idx_d' = sem_idx_new(semaphore_idx_d)
    /\ cyc' = [cyc EXCEPT !.advances = @ + 1]
    /\ src_pc' = "emit"
    /\ UNCHANGED << exit_condition, packet_count_d, packet_size_total_d,
                    packet_count, packet_size_total, out_bufs,
                    src_subscribed, src_downstream, recv_after_exit, fault, not_source >>

\* lines 186-337: build the columns and the table, output.on_next(meta).
\* rxcpp's subscriber delivers on_next only while it is subscribed.
Emit ==
    /\ src_pc = "emit"
    /\ src_downstream' = IF src_subscribed
                           THEN [src_downstream EXCEPT !.last = "batch"]
                           ELSE src_downstream
    /\ cyc' = [cyc EXCEPT !.emits = @ + 1]
    /\ out_bufs' = NoBufs
    /\ src_pc' = "while"
    /\ UNCHANGED << exit_condition, semaphore_idx_d, packet_count_d, packet_size_total_d,
                    packet_count, packet_size_total, src_subscribed,
                    recv_after_exit, fault, not_source >>

\* line 340: cudaStreamDestroy(processing_stream)
StreamDestroy ==
    /\ src_pc = "destroy"
    /\ src_pc' = "complete"
    /\ UNCHANGED << exit_condition, semaphore_idx_d, packet_count_d, packet_size_total_d,
                    packet_count, packet_size_total, out_bufs,
                    src_subscribed, src_downstream, cyc, recv_after_exit, fault, not_source >>

\* line 342: output.on_completed().  rxcpp's subscriber::on_completed returns at
\* once when the subscriber is no longer subscribed.
OnCompleted ==
    /\ src_pc = "complete"
    /\ IF src_subscribed
         THEN /\ src_downstream' = [src_downstream EXCEPT !.last = "completed",
                                                          !.completed = @ + 1]
              /\ src_subscribed' = FALSE
         ELSE UNCHANGED << src_downstream, src_subscribed >>
    /\ src_pc' = "done"
    /\ UNCHANGED << exit_condition, semaphore_idx_d, packet_count_d, packet_size_total_d,
                    packet_count, packet_size_total, out_bufs,
                    cyc, recv_after_exit, fault, not_source >>

EngineStep ==
    \/ WhileSubscribed
    \/ CheckExit
    \/ ReceiveKernel
    \/ SyncCount
    \/ Allocate
    \/ GatherKernel
    \/ AdvanceCursor
    \/ Emit
    \/ StreamDestroy
    \/ OnCompleted

NextSource ==
    \/ SetExitCondition
    \/ WhileSubscribed
    \/ CheckExit
    \/ ReceiveKernel
    \/ SyncCount
    \/ Allocate
    \/ GatherKernel
    \/ AdvanceCursor
    \/ Emit
    \/ StreamDestroy
    \/ OnCompleted

\* An exception leaves the subscriber function (skipping lines 340 and 342).
\* rxcpp catches what the function of a created observable throws and, if the
\* subscriber is still subscribed, delivers on_error and unsubscribes it.
Unwind(kind) ==
    /\ fault' = kind
    /\ src_downstream' = IF src_subscribed
                           THEN [src_downstream EXCEPT !.last = "error"]
                           ELSE src_downstream
    /\ src_subscribed' = FALSE
    /\ src_pc' = "done"

\* lines 121-128 when cudaStreamSynchronize fails: its status is discarded.
\* packet_count_d.value(stream) then either throws (the stream is still in error)
\* or returns whatever the device scalar holds, and the loop goes on with it.
SyncFails ==
    /\ src_pc = "sync"
    /\ fault = "none"
    /\ \/ /\ Unwind("sync")
          /\ UNCHANGED packet_count
       \/ /\ fault' = "sync"
          /\ packet_count' = packet_count_d
          /\ src_pc' = AfterCount(packet_count_d)
          /\ UNCHANGED << src_subscribed, src_downstream >>
    /\ UNCHANGED << exit_condition, semaphore_idx_d, packet_count_d, packet_size_total_d,
                    packet_size_total, out_bufs, cyc, recv_after_exit, not_source >>

\* lines 130-146 when a device allocation fails: rmm throws, no buffer of the
\* cycle survives
AllocFails ==
    /\ src_pc = "alloc"
    /\ fault = "none"
    /\ Unwind("alloc")
    /\ out_bufs' = NoBufs
    /\ UNCHANGED << exit_condition, semaphore_idx_d, packet_count_d, packet_size_total_d,
                    packet_count, packet_size_total, cyc, recv_after_exit, not_source >>

\* the capture loop with runtime failures
NextSourceFaults ==
    \/ NextSource
    \/ SyncFails
    \/ AllocFails

----------------------------------------------------------------------------
(***************************************************************************)
(* DocaConvertStage: device buffers and concat_packet_buffers              *)
(***************************************************************************)

\* a byte of device memory that was allocated and never written
Uninit == 0 - 1

\* the four bytes of a uint32_t in device memory (little endian)
U32Bytes(v) == << v % 256, (v \div 256) % 256, (v \div 65536) % 256, (v \div 16777216) % 256 >>

\* the k-th byte of a device buffer (k from 1); the stage reads only inside
\* its buffers, beyond them lies memory it never wrote
ByteAt(bytes, k) == IF k \in DOMAIN bytes THEN bytes[k] ELSE Uninit

\* the i-th uint32_t of a byte buffer (i from 1)
U32At(bytes, i) ==
    ByteAt(bytes, 4 * i - 3) + 256 * ByteAt(bytes, 4 * i - 2)
        + 65536 * ByteAt(bytes, 4 * i - 1) + 16777216 * ByteAt(bytes, 4 * i)

\* n bytes of value v
RECURSIVE Bytes(_, _)
Bytes(n, v) == IF n <= 0 THEN << >> ELSE Append(Bytes(n - 1, v), v)

\* s bytes of payload of packet p
PayloadOf(p, s) == Bytes(s, p % 256)

\* the sequences f[1], ..., f[n] back to back
RECURSIVE FlattenTo(_, _)
FlattenTo(f, n) == IF n = 0 THEN << >> ELSE FlattenTo(f, n - 1) \o f[n]

\* doca::packet_data_buffer(num_packets, header_size, payload_size,
\* payload_sizes_size, stream): three device buffers of the given byte sizes
packet_data_buffer(num_packets, header_size, payload_size, payload_sizes_size) ==
    [m_num_packets          |-> num_packets,
     m_header_buffer        |-> Bytes(header_size, Uninit),
     m_payload_buffer       |-> Bytes(payload_size, Uninit),
     m_payload_sizes_buffer |-> Bytes(payload_sizes_size, Uninit)]

MemcpyAt_base(dst, offset, src) ==
    IF Len(src) <= Len(dst) THEN src \o SubSeq(dst, Len(src) + 1, Len(dst))
    ELSE SubSeq(src, 1, Len(dst))

\* cudaMemcpyAsync(dst + offset, src, size(src)): the bytes of src at offset
MemcpyAt(dst, offset, src) ==
    IF offset >= Len(dst) THEN dst
    ELSE LET n == IF offset + Len(src) <= Len(dst) THEN Len(src) ELSE Len(dst) - offset IN
         SubSeq(dst, 1, offset) \o SubSeq(src, 1, n) \o SubSeq(dst, offset + n + 1, Len(dst))

\* lines 88-119: the copy loop, from buffer i on, with the three running offsets
RECURSIVE concat_loop(_, _, _, _, _, _)
concat_loop(combined_buffer, packet_buffers, i, curr_header_offset, curr_payload_offset, curr_payload_sizes_offset) ==
    IF i > Len(packet_buffers) THEN combined_buffer
    ELSE LET b == packet_buffers[i] IN
         concat_loop(
            [combined_buffer EXCEPT
                !.m_header_buffer = MemcpyAt(@, curr_header_offset, b.m_header_buffer),
                !.m_payload_buffer = MemcpyAt(@, curr_payload_offset, b.m_payload_buffer),
                !.m_payload_sizes_buffer =
                    MemcpyAt(@, curr_payload_sizes_offset, b.m_payload_sizes_buffer)],
            packet_buffers, i + 1,
            curr_header_offset + Len(b.m_header_buffer),
            curr_payload_offset + Len(b.m_payload_buffer),
            curr_payload_sizes_offset + Len(b.m_payload_sizes_buffer))

concat_single_not_moved(ttl_packets, ttl_header_bytes, ttl_payload_bytes, ttl_payload_sizes_bytes, packet_buffers) ==
    IF Len(packet_buffers) = 1
      THEN packet_data_buffer(ttl_packets, ttl_header_bytes, ttl_payload_bytes,
                              ttl_payload_sizes_bytes)
      ELSE concat_loop(
              packet_data_buffer(ttl_packets, ttl_header_bytes, ttl_payload_bytes,
                                 ttl_payload_sizes_bytes),
              packet_buffers, 1, 0, 0, 0)

\* lines 72-124
concat_packet_buffers(ttl_packets, ttl_header_bytes, ttl_payload_bytes, ttl_payload_sizes_bytes, packet_buffers) ==
    IF Len(packet_buffers) = 1 THEN packet_buffers[1]
    ELSE concat_loop(
            packet_data_buffer(ttl_packets, ttl_header_bytes, ttl_payload_bytes,
                               ttl_payload_sizes_bytes),
            packet_buffers, 1, 0, 0, 0)

\* the sum of the first i payload sizes
RECURSIVE offset_of(_, _)
offset_of(sizes_bytes, i) ==
    IF i = 0 THEN 0 ELSE offset_of(sizes_bytes, i - 1) + U32At(sizes_bytes, i)

\* doca::sizes_to_offsets: the exclusive prefix sums of the payload sizes,
\* num_packets + 1 of them
sizes_to_offsets(num_packets, sizes_bytes) ==
    [i \in 1 .. (num_packets + 1) |-> offset_of(sizes_bytes, i - 1)]

\* cudf::strings::integers_to_ipv4: the four octets, most significant first
integers_to_ipv4(v) ==
    << (v \div 16777216) % 256, (v \div 65536) % 256, (v \div 256) % 256, v % 256 >>

\* lines 146-165: one address per packet, read from the header buffer as uint32_t
make_ip_col(b) ==
    [i \in 1 .. b.m_num_packets |-> integers_to_ipv4(U32At(b.m_header_buffer, i))]

\* lines 126-144: one string per packet, cut out of the payload buffer at the
\* offsets computed from the payload sizes
make_string_col(b) ==
    LET offsets == sizes_to_offsets(b.m_num_packets, b.m_payload_sizes_buffer) IN
    [i \in 1 .. b.m_num_packets |->
        [k \in 1 .. (offsets[i + 1] - offsets[i]) |->
            ByteAt(b.m_payload_buffer, offsets[i] + k)]]

\* lines 290-306: the table with the columns src_ip and data
RECURSIVE table_rows(_, _, _)
table_rows(src_ip_col, payload_col, n) ==
    IF n = 0 THEN << >>
    ELSE Append(table_rows(src_ip_col, payload_col, n - 1),
                [src_ip |-> src_ip_col[n], data |-> payload_col[n]])

gathered_table(b) == table_rows(make_ip_col(b), make_string_col(b), b.m_num_packets)

\* lines 293-301: the names send_buffered_data appends to metadata.schema_info,
\* one per column pushed, in the order pushed
schema_info == << "src_ip", "data" >>

\* doca_source.cpp lines 291-328: the names DocaSourceStage::build appends to
\* metadata.schema_info, one per column pushed, in the order pushed
source_schema_info ==
    << "timestamp", "src_mac", "dst_mac", "src_ip", "dst_ip", "src_port", "dst_port",
       "packet_size", "tcp_flags", "ether_type", "next_proto_id", "data" >>

----------------------------------------------------------------------------
(***************************************************************************)
(* DocaConvertStage: the producer side                                     *)
(***************************************************************************)

NoMsg == [count |-> 0]
NoBuffer == [m_num_packets |-> 0]
ZeroTotals == [packets |-> 0, header_bytes |-> 0, payload_bytes |-> 0,
               payload_sizes_bytes |-> 0]

InitConvert ==
    /\ cv_now = 0
    /\ upstream = "active"
    /\ next_pkt = 0
    /\ prod_pc = "idle"
    /\ raw_msg = NoMsg
    /\ packet_buffer = NoBuffer
    /\ m_buffer_channel = [q |-> << >>, closed |-> FALSE]
    /\ reader_pc = "outer"
    /\ poll_end = 0
    /\ ttl = ZeroTotals
    /\ packets = << >>
    /\ cv_subscribed = TRUE
    /\ cv_downstream = << >>
    /\ written = << >>
    /\ window = 0
    /\ read_log = << >>
    /\ emit_log = << >>
    /\ stream_work = { }

\* The RawPacketMessages the upstream can deliver next: count packets, numbered
\* from first + 1.  Packet number p has source address p and a payload of
\* p % (MaxPld + 1) bytes, so the payload sizes run through 0 .. MaxPld.
RawPacketMessages(first) ==
    { [count |-> c, first |-> first,
       pkt_pld_size_list |-> [i \in 1 .. c |-> (first + i) % (MaxPld + 1)]] :
        c \in 1 .. MaxCount }

\* doca::gather_sizes: the sum of the payload sizes of the message
gather_sizes(count, pkt_pld_size_list) == SumSeq(pkt_pld_size_list)

\* doca::gather_header: the source address of every packet, as uint32_t
gather_header(msg) == FlattenTo([i \in 1 .. msg.count |-> U32Bytes(msg.first + i)], msg.count)

\* doca::gather_payload: the payload bytes of every packet, back to back
gather_payload(msg) ==
    FlattenTo([i \in 1 .. msg.count |-> PayloadOf(msg.first + i, msg.pkt_pld_size_list[i])],
              msg.count)

sizes_buff_size_elements(count) == count

\* line 219: const uint32_t header_buff_size = packet_count * sizeof(uint32_t)
\* (a message holds at most MAX_PKT_RECEIVE packets, far from the 32-bit wrap)
header_buff_size(count) == count * 4

\* line 220: sizes_buff_size = packet_count * sizeof(uint32_t)
sizes_buff_size(count) == count * 4

\* lines 210-246: the buffer on_raw_packet_message builds from a message
BuildPacketBuffer(msg) ==
    LET payload_buff_size == gather_sizes(msg.count, msg.pkt_pld_size_list)
        alloc == packet_data_buffer(msg.count, header_buff_size(msg.count),
                                    payload_buff_size, sizes_buff_size(msg.count))
    IN  [alloc EXCEPT
            !.m_payload_buffer = MemcpyAt(@, 0, gather_payload(msg)),
            !.m_header_buffer = MemcpyAt(@, 0, gather_header(msg)),
            !.m_payload_sizes_buffer =
                MemcpyAt(@, 0, SubSeq(FlattenTo([i \in 1 .. msg.count |->
                                                    U32Bytes(msg.pkt_pld_size_list[i])],
                                                msg.count),
                                      1, sizes_buff_size(msg.count)))]

\* line 178: the one execution stream of the stage, m_stream / m_stream_cpp
m_stream == "m_stream"

\* line 223: every packet_data_buffer is built on m_stream_cpp and keeps it
buffer_stream(b) == m_stream

\* lines 217-246: the streams on_raw_packet_message puts work on (the gathers,
\* the copy of the payload sizes, the synchronize)
producer_streams == { m_stream }

\* lines 80-121: the streams concat_packet_buffers puts work on: none for a
\* single buffer, else the stream of packet_buffers[0] (the copies, the synchronize)
concat_streams(packet_buffers) ==
    IF Len(packet_buffers) = 1 THEN { } ELSE { buffer_stream(packet_buffers[1]) }

\* lines 195-197 and 208-246: the input observer's on_next runs
\* on_raw_packet_message up to its await_write
OnRawPacketMessage ==
    /\ upstream = "active"
    /\ prod_pc = "idle"
    /\ Len(written) < MaxMsgs
    /\ \E msg \in RawPacketMessages(next_pkt) :
         /\ raw_msg' = msg
         /\ packet_buffer' = BuildPacketBuffer(msg)
         /\ next_pkt' = next_pkt + msg.count
    /\ stream_work' = stream_work \cup
                        { [loop |-> "on_raw_packet_message", stream |-> st] :
                            st \in producer_streams }
    /\ prod_pc' = "await_write"
    /\ UNCHANGED << cv_now, upstream, m_buffer_channel, reader_pc, poll_end, ttl,
                    packets, cv_subscribed, cv_downstream, written, window, read_log,
                    emit_log, not_convert >>

\* the number of entries the channel holds at most
channel_capacity_unbounded == ChannelCapacity + MaxMsgs

\* lines 173-176: m_buffer_channel is a BufferedChannel of payload_buffer_size entries
channel_capacity == ChannelCapacity

AwaitWrite_Copy ==
    /\ prod_pc = "await_write"
    /\ Len(m_buffer_channel.q) < channel_capacity
    /\ m_buffer_channel' = [m_buffer_channel EXCEPT !.q = Append(@, packet_buffer)]
    /\ written' = Append(written, packet_buffer)
    /\ raw_msg' = NoMsg
    /\ prod_pc' = "idle"
    /\ UNCHANGED << cv_now, upstream, next_pkt, packet_buffer, reader_pc, poll_end, ttl,
                    packets, cv_subscribed, cv_downstream, window, read_log, emit_log,
                    stream_work, not_convert >>

\* line 248: m_buffer_channel->await_write(std::move(packet_buffer)) returns once
\* the channel has room for the buffer
AwaitWrite ==
    /\ prod_pc = "await_write"
    /\ Len(m_buffer_channel.q) < channel_capacity
    /\ m_buffer_channel' = [m_buffer_channel EXCEPT !.q = Append(@, packet_buffer)]
    /\ written' = Append(written, packet_buffer)
    /\ packet_buffer' = NoBuffer
    /\ raw_msg' = NoMsg
    /\ prod_pc' = "idle"
    /\ UNCHANGED << cv_now, upstream, next_pkt, reader_pc, poll_end, ttl, packets,
                    cv_subscribed, cv_downstream, window, read_log, emit_log, stream_work, not_convert >>

\* lines 198-200: the input observer's on_error: output.on_error(error_ptr).
\* rxcpp's subscriber delivers it if still subscribed, and is unsubscribed after.
OnError ==
    /\ upstream = "active"
    /\ prod_pc = "idle"
    /\ upstream' = "errored"
    /\ cv_downstream' = IF cv_subscribed THEN Append(cv_downstream, [kind |-> "error"])
                        ELSE cv_downstream
    /\ cv_subscribed' = FALSE
    /\ UNCHANGED << cv_now, next_pkt, prod_pc, raw_msg, packet_buffer, m_buffer_channel,
                    reader_pc, poll_end, ttl, packets, written, window, read_log,
                    emit_log, stream_work, not_convert >>

\* lines 201-202: the input observer's on_completed closes the channel ...
OnCompletedClose ==
    /\ upstream = "active"
    /\ prod_pc = "idle"
    /\ upstream' = "completed"
    /\ m_buffer_channel' = [m_buffer_channel EXCEPT !.closed = TRUE]
    /\ prod_pc' = "join"
    /\ UNCHANGED << cv_now, next_pkt, raw_msg, packet_buffer, reader_pc, poll_end, ttl,
                    packets, cv_subscribed, cv_downstream, written, window, read_log,
                    emit_log, stream_work, not_convert >>

\* line 203: ... and joins the buffer_reader fiber
Join ==
    /\ prod_pc = "join"
    /\ reader_pc = "done"
    /\ prod_pc' = "joined"
    /\ UNCHANGED << cv_now, upstream, next_pkt, raw_msg, packet_buffer, m_buffer_channel,
                    reader_pc, poll_end, ttl, packets, cv_subscribed, cv_downstream,
                    written, window, read_log, emit_log, stream_work, not_convert >>

\* the steady clock advances
Tick ==
    /\ cv_now < MaxTime
    /\ cv_now' = cv_now + 1
    /\ UNCHANGED << upstream, next_pkt, prod_pc, raw_msg, packet_buffer, m_buffer_channel,
                    reader_pc, poll_end, ttl, packets, cv_subscribed, cv_downstream,
                    written, window, read_log, emit_log, stream_work, not_convert >>

----------------------------------------------------------------------------
(***************************************************************************)
(* DocaConvertStage::buffer_reader, the accumulation loop                  *)
(***************************************************************************)

ReaderOuter_IgnoresClose ==
    /\ reader_pc = "outer"
    /\ reader_pc' = "inner"
    /\ ttl' = ZeroTotals
    /\ poll_end' = cv_now + MaxTimeDelta
    /\ window' = window + 1
    /\ UNCHANGED << cv_now, upstream, next_pkt, prod_pc, raw_msg, packet_buffer,
                    m_buffer_channel, packets, cv_subscribed, cv_downstream, written,
                    read_log, emit_log, stream_work, not_convert >>

\* lines 255-261: while (!is_channel_closed()) { totals = 0; poll_end = now + delta
ReaderOuter ==
    /\ reader_pc = "outer"
    /\ IF m_buffer_channel.closed
         THEN /\ reader_pc' = "done"
              /\ UNCHANGED << ttl, poll_end, window >>
         ELSE /\ reader_pc' = "inner"
              /\ ttl' = ZeroTotals
              /\ poll_end' = cv_now + MaxTimeDelta
              /\ window' = window + 1
    /\ UNCHANGED << cv_now, upstream, next_pkt, prod_pc, raw_msg, packet_buffer,
                    m_buffer_channel, packets, cv_subscribed, cv_downstream, written,
                    read_log, emit_log, stream_work, not_convert >>

\* line 262: while (now() < poll_end && !is_channel_closed())
ReaderInner ==
    /\ reader_pc = "inner"
    /\ reader_pc' = IF cv_now < poll_end /\ ~m_buffer_channel.closed
                      THEN "read" ELSE "flush"
    /\ UNCHANGED << cv_now, upstream, next_pkt, prod_pc, raw_msg, packet_buffer,
                    m_buffer_channel, poll_end, ttl, packets, cv_subscribed,
                    cv_downstream, written, window, read_log, emit_log, stream_work, not_convert >>

ttl_add_overwrite(t, b) ==
    [packets             |-> b.m_num_packets,
     header_bytes        |-> Len(b.m_header_buffer),
     payload_bytes       |-> Len(b.m_payload_buffer),
     payload_sizes_bytes |-> Len(b.m_payload_sizes_buffer)]

\* lines 269-272: the running totals of the window
ttl_add(t, b) ==
    [packets             |-> t.packets + b.m_num_packets,
     header_bytes        |-> t.header_bytes + Len(b.m_header_buffer),
     payload_bytes       |-> t.payload_bytes + Len(b.m_payload_buffer),
     payload_sizes_bytes |-> t.payload_sizes_bytes + Len(b.m_payload_sizes_buffer)]

\* lines 264-274: await_read_until(packet_buffer, poll_end) returns an entry as
\* soon as the channel holds one, "closed" on an empty closed channel, "timeout"
\* at poll_end; until then it blocks
AwaitReadUntil ==
    /\ reader_pc = "read"
    /\ IF m_buffer_channel.q # << >>
         THEN LET b == Head(m_buffer_channel.q) IN
              /\ m_buffer_channel' = [m_buffer_channel EXCEPT !.q = Tail(@)]
              /\ ttl' = ttl_add(ttl, b)
              /\ packets' = Append(packets, b)
              /\ read_log' = Append(read_log, [win |-> window, buf |-> b])
         ELSE /\ (m_buffer_channel.closed \/ cv_now >= poll_end)
              /\ UNCHANGED << m_buffer_channel, ttl, packets, read_log >>
    /\ reader_pc' = "inner"
    /\ UNCHANGED << cv_now, upstream, next_pkt, prod_pc, raw_msg, packet_buffer,
                    poll_end, cv_subscribed, cv_downstream, written, window,
                    emit_log, stream_work, not_convert >>

\* lines 277-283 with send_buffered_data (287-308): concatenate the pending
\* buffers, build the table, output.on_next(meta), packets.clear().
\* rxcpp's subscriber delivers on_next only while it is subscribed.
Flush ==
    /\ reader_pc = "flush"
    /\ IF packets # << >>
         THEN \E combined_data \in
                    { concat_packet_buffers(ttl.packets, ttl.header_bytes, ttl.payload_bytes,
                                            ttl.payload_sizes_bytes, packets) } :
                  /\ cv_downstream' =
                        IF cv_subscribed
                          THEN Append(cv_downstream,
                                      [kind |-> "batch", schema |-> schema_info,
                                       table |-> gathered_table(combined_data)])
                          ELSE cv_downstream
                  /\ emit_log' = Append(emit_log, [win |-> window, buf |-> combined_data])
                  /\ packets' = << >>
                  /\ stream_work' = stream_work \cup
                                      { [loop |-> "buffer_reader", stream |-> st] :
                                          st \in concat_streams(packets) }
         ELSE UNCHANGED << cv_downstream, emit_log, packets, stream_work >>
    /\ reader_pc' = "outer"
    /\ UNCHANGED << cv_now, upstream, next_pkt, prod_pc, raw_msg, packet_buffer,
                    m_buffer_channel, poll_end, ttl, cv_subscribed, written, window,
                    read_log, not_convert >>

ReaderStep ==
    \/ ReaderOuter
    \/ ReaderInner
    \/ AwaitReadUntil
    \/ Flush

NextConvert ==
    \/ OnRawPacketMessage
    \/ AwaitWrite
    \/ OnError
    \/ OnCompletedClose
    \/ Join
    \/ Tick
    \/ ReaderOuter
    \/ ReaderInner
    \/ AwaitReadUntil
    \/ Flush

----------------------------------------------------------------------------
(***************************************************************************)
(* concat_packet_buffers applied to three buffers                          *)
(***************************************************************************)

\* every RawPacketMessage of up to MaxCount packets numbered from first + 1, with
\* any payload sizes up to MaxPld
AnyRawPacketMessages(first) ==
    { m \in [count : 1 .. MaxCount, first : {first},
             pkt_pld_size_list : SeqsUpTo(0 .. MaxPld, MaxCount)] :
        Len(m.pkt_pld_size_list) = m.count }

\* lines 257-260 and 269-272: the totals buffer_reader passes for a pending list
RECURSIVE TotalsOf(_)
TotalsOf(bufs) ==
    IF bufs = << >> THEN ZeroTotals
    ELSE ttl_add(TotalsOf(SubSeq(bufs, 1, Len(bufs) - 1)), bufs[Len(bufs)])

\* lines 279-280: the call buffer_reader makes for a pending list
ConcatCall(bufs) ==
    LET t == TotalsOf(bufs) IN
    concat_packet_buffers(t.packets, t.header_bytes, t.payload_bytes,
                          t.payload_sizes_bytes, bufs)

InitConcat ==
    /\ cc_pc = "start"
    /\ cc_in \in { << BuildPacketBuffer(a), BuildPacketBuffer(b), BuildPacketBuffer(c) >> :
                     a \in AnyRawPacketMessages(0),
                     b \in AnyRawPacketMessages(MaxCount),
                     c \in AnyRawPacketMessages(2 * MaxCount) }
    /\ cc_abc = NoBuffer
    /\ cc_a = NoBuffer
    /\ cc_a_bc = NoBuffer

ConcatAll ==
    /\ cc_pc = "start"
    /\ cc_abc' = ConcatCall(cc_in)
    /\ cc_pc' = "all"
    /\ UNCHANGED << cc_in, cc_a, cc_a_bc, not_concat >>

ConcatFirst ==
    /\ cc_pc = "all"
    /\ cc_a' = ConcatCall(<< cc_in[1] >>)
    /\ cc_pc' = "first"
    /\ UNCHANGED << cc_in, cc_abc, cc_a_bc, not_concat >>

ConcatRest ==
    /\ cc_pc = "first"
    /\ cc_a_bc' = ConcatCall(<< cc_a, cc_in[2], cc_in[3] >>)
    /\ cc_pc' = "done"
    /\ UNCHANGED << cc_in, cc_abc, cc_a, not_concat >>

NextConcat ==
    \/ ConcatAll
    \/ ConcatFirst
    \/ ConcatRest

----------------------------------------------------------------------------
(***************************************************************************)
(* DocaSourceStage constructor: the source-IP filter                       *)
(***************************************************************************)

\* A filter string is a sequence of lexemes: a run of decimal digits is the
\* number it denotes, DOT is the character '.', JUNK is any other text.
DOT == 0 - 1
JUNK == 0 - 2

\* the digit runs of the model: an octet, and a number above 255
FilterNumbers == { 1, 256 }

\* the filter strings of the model; two digit runs never stand side by side
Filters ==
    { f \in SeqsUpTo(FilterNumbers \cup { DOT, JUNK }, MaxFilterLen) :
        \A i \in 1 .. (Len(f) - 1) : ~(f[i] >= 0 /\ f[i + 1] >= 0) }

\* line 48: sscanf(ip_address, "%hhu.%hhu.%hhu.%hhu", &a, &b, &c, &d) from the
\* k-th directive on: the octets converted so far, in order.  A directive that
\* does not match ends the scan; %hhu stores the number modulo 256; text after
\* the fourth number is not looked at.
RECURSIVE sscanf_hhu(_, _, _)
sscanf_hhu(ip_address, k, converted) ==
    IF k > 7 \/ k > Len(ip_address) THEN converted
    ELSE IF k % 2 = 1
           THEN IF ip_address[k] >= 0
                  THEN sscanf_hhu(ip_address, k + 1, Append(converted, ip_address[k] % 256))
                  ELSE converted
           ELSE IF ip_address[k] = DOT
                  THEN sscanf_hhu(ip_address, k + 1, converted)
                  ELSE converted

\* line 36: BE_IPV4_ADDR(a, b, c, d), the address in network byte order, as its
\* four bytes in memory
BE_IPV4_ADDR(a, b, c, d) == << a, b, c, d >>

\* lines 38-58: std::optional<uint32_t> ip_to_int(ip_address)
ip_to_int(ip_address) ==
    IF ip_address = << >> THEN << 0, 0, 0, 0 >>
    ELSE LET conv == sscanf_hhu(ip_address, 1, << >>) IN
         IF Len(conv) = 4
           THEN BE_IPV4_ADDR(conv[1], conv[2], conv[3], conv[4])
           ELSE "nullopt"

----------------------------------------------------------------------------
(***************************************************************************)
(* The hardware objects and their shared_ptr holders                       *)
(***************************************************************************)

NoPipe == [state |-> "none"]

InitHw ==
    /\ hw_pc = "new"
    /\ source_ip_filter = << >>
    /\ source_ip = "unset"
    /\ holders = { }
    /\ hw_objs = [o \in { "context", "rxq", "semaphore", "rxpipe" } |-> "none"]
    /\ m_pipe = NoPipe
    /\ m_root_pipe = NoPipe
    /\ hw_log = << >>

\* the statuses a DOCA call returns in the model
DocaStatus == { "DOCA_SUCCESS", "DOCA_ERROR_NO_MEMORY" }

DOCA_TRY_never_throws(status) == FALSE

\* error.hpp lines 55-61: DOCA_TRY(call) throws doca_error iff the status of the
\* call is not DOCA_SUCCESS
DOCA_TRY(status) == status # "DOCA_SUCCESS"

\* an entry of the history of hardware calls
Call(name, status) == [call |-> name, status |-> status]

RefsOf_none(o) == { }

\* the objects a hardware object keeps alive through its shared_ptr members:
\* doca_context.hpp lines 38, 53-54, 69 and doca_rx_pipe.cpp lines 26-27
RefsOf(o) ==
    CASE o = "rxq"       -> { "context" }
      [] o = "semaphore" -> { "context" }
      [] o = "rxpipe"    -> { "context", "rxq" }
      [] OTHER           -> { }

\* the hardware objects that are alive and that no shared_ptr refers to any more
Orphans(h, objs) ==
    { o \in { "context", "rxq", "semaphore" } :
        objs[o] = "live" /\ ~(\E pr \in h : pr[2] = o) }

\* shared_ptr: an object whose last reference is gone is destroyed, which
\* releases the references it held itself
RECURSIVE Collect(_, _, _)
Collect(h, objs, log) ==
    IF Orphans(h, objs) = { } THEN [h |-> h, objs |-> objs, log |-> log]
    ELSE LET o == CHOOSE x \in Orphans(h, objs) : TRUE IN
         Collect({ pr \in h : pr[1] # o },
                 [objs EXCEPT ![o] = "destroyed"],
                 Append(log, Call("destroy_" \o o, "DOCA_SUCCESS")))

----------------------------------------------------------------------------
(***************************************************************************)
(* DocaSourceStage::DocaSourceStage and DocaRxPipe                         *)
(***************************************************************************)

\* the exception that ends a constructor
Throw(what) == Call("throw", what)

Thrown == \E i \in 1 .. Len(hw_log) : hw_log[i].call = "throw"

\* doca_source.cpp lines 62-69: the stage is constructed with a filter string
Construct ==
    /\ hw_pc = "new"
    /\ \E f \in Filters :
         /\ source_ip_filter' = f
         /\ source_ip' = ip_to_int(f)
    /\ hw_pc' = "check"
    /\ UNCHANGED << holders, hw_objs, m_pipe, m_root_pipe, hw_log, not_hw >>

filter_invalid_never(ip) == FALSE

\* line 71: source_ip == std::nullopt
filter_invalid(ip) == ip = "nullopt"

\* lines 71-73: throw std::runtime_error("source ip filter invalid")
CheckFilter ==
    /\ hw_pc = "check"
    /\ IF filter_invalid(source_ip)
         THEN /\ hw_log' = Append(hw_log, Throw("runtime_error"))
              /\ hw_pc' = "release"
         ELSE /\ hw_log' = hw_log
              /\ hw_pc' = "context"
    /\ UNCHANGED << source_ip_filter, source_ip, holders, hw_objs, m_pipe, m_root_pipe,
                    not_hw >>

\* std::make_shared<T>(...) assigned to a member of the stage: the constructor
\* of T either succeeds, and the stage then holds the object, which holds what
\* RefsOf says, or throws and leaves nothing
MakeShared(o, at, then) ==
    /\ hw_pc = at
    /\ \E st \in DocaStatus :
         IF DOCA_TRY(st)
           THEN /\ hw_log' = hw_log \o << Call("create_" \o o, st), Throw("doca_error") >>
                /\ hw_pc' = "release"
                /\ UNCHANGED << holders, hw_objs >>
           ELSE /\ hw_log' = Append(hw_log, Call("create_" \o o, st))
                /\ hw_objs' = [hw_objs EXCEPT ![o] = "live"]
                /\ holders' = holders \cup { << "stage", o >> }
                                      \cup { << o, r >> : r \in RefsOf(o) }
                /\ hw_pc' = then
    /\ UNCHANGED << source_ip_filter, source_ip, m_pipe, m_root_pipe, not_hw >>

\* lines 75-78
MakeContext == MakeShared("context", "context", "rxq")

\* line 80
MakeRxq == MakeShared("rxq", "rxq", "semaphore")

\* line 81
MakeSemaphore == MakeShared("semaphore", "semaphore", "rxpipe")

\* line 82 and doca_rx_pipe.cpp lines 25-28: the DocaRxPipe constructor starts;
\* its members m_context and m_rxq are initialized
BeginRxPipe ==
    /\ hw_pc = "rxpipe"
    /\ hw_objs' = [hw_objs EXCEPT !["rxpipe"] = "constructing"]
    /\ holders' = holders \cup { << "rxpipe", r >> : r \in RefsOf("rxpipe") }
    /\ hw_pc' = "create_basic"
    /\ UNCHANGED << source_ip_filter, source_ip, m_pipe, m_root_pipe, hw_log, not_hw >>

\* the statuses a DOCA flow call can return: a call on a pipe that does not
\* exist cannot succeed
StatusOf(possible) == IF possible THEN DocaStatus ELSE DocaStatus \ { "DOCA_SUCCESS" }

\* where the DocaRxPipe constructor goes after a call wrapped in DOCA_TRY
AfterTry(st, then) == IF DOCA_TRY(st) THEN "rxpipe_throw" ELSE then

miss_fwd_rss == "rss_rxq"

\* doca_rx_pipe.cpp lines 45-46: miss_fwd.type = DOCA_FLOW_FWD_DROP
miss_fwd_type == "drop"

\* doca_rx_pipe.cpp lines 30-61: the basic pipe: match IPv4 / TCP under an
\* all-zero match mask, forward RSS to the queue of rxq, miss forward DROP
PipeCreateBasic ==
    /\ hw_pc = "create_basic"
    /\ \E st \in DocaStatus :
         /\ hw_log' = Append(hw_log, Call("pipe_create_basic", st))
         /\ m_pipe' = IF st = "DOCA_SUCCESS"
                        THEN [state      |-> "created",
                              match      |-> [l3 |-> "IP4", l4 |-> "TCP"],
                              match_mask |-> [l3 |-> 0, l4 |-> 0],
                              fwd        |-> "rss_rxq",
                              miss_fwd   |-> miss_fwd_type,
                              entries    |-> 0,
                              committed  |-> 0]
                        ELSE m_pipe
         /\ hw_pc' = AfterTry(st, "add_placeholder")
    /\ UNCHANGED << source_ip_filter, source_ip, holders, hw_objs, m_root_pipe, not_hw >>

\* lines 63-64: doca_flow_pipe_add_entry(0, m_pipe, nullptr, ...): an entry
\* with the match and the forward of the pipe itself
AddPlaceholder ==
    /\ hw_pc = "add_placeholder"
    /\ \E st \in StatusOf(m_pipe.state = "created") :
         /\ hw_log' = Append(hw_log, Call("add_placeholder", st))
         /\ m_pipe' = IF st = "DOCA_SUCCESS" THEN [m_pipe EXCEPT !.entries = @ + 1]
                      ELSE m_pipe
         /\ hw_pc' = AfterTry(st, "commit_placeholder")
    /\ UNCHANGED << source_ip_filter, source_ip, holders, hw_objs, m_root_pipe, not_hw >>

\* line 65: doca_flow_entries_process(context->flow_port(), 0, 0, 0)
CommitPlaceholder ==
    /\ hw_pc = "commit_placeholder"
    /\ \E st \in DocaStatus :
         /\ hw_log' = Append(hw_log, Call("process_placeholder", st))
         /\ m_pipe' = IF st = "DOCA_SUCCESS" /\ m_pipe.state = "created"
                        THEN [m_pipe EXCEPT !.committed = m_pipe.entries]
                        ELSE m_pipe
         /\ hw_pc' = AfterTry(st, "create_root")
    /\ UNCHANGED << source_ip_filter, source_ip, holders, hw_objs, m_root_pipe, not_hw >>

\* lines 67-82: the root control pipe, created without forward and without
\* miss forward
PipeCreateRoot ==
    /\ hw_pc = "create_root"
    /\ \E st \in DocaStatus :
         /\ hw_log' = Append(hw_log, Call("pipe_create_root", st))
         /\ m_root_pipe' = IF st = "DOCA_SUCCESS"
                             THEN [state     |-> "created",
                                   fwd_miss  |-> "none",
                                   entries   |-> << >>,
                                   committed |-> 0]
                             ELSE m_root_pipe
         /\ hw_pc' = AfterTry(st, "add_root")
    /\ UNCHANGED << source_ip_filter, source_ip, holders, hw_objs, m_pipe, not_hw >>

\* lines 84-103: one control entry, priority_low, match IPv4 / TCP, forward to
\* the basic pipe
AddRootEntry ==
    /\ hw_pc = "add_root"
    /\ \E st \in StatusOf(m_root_pipe.state = "created") :
         /\ hw_log' = Append(hw_log, Call("add_root_entry", st))
         /\ m_root_pipe' =
              IF st = "DOCA_SUCCESS"
                THEN [m_root_pipe EXCEPT !.entries =
                        Append(@, [priority  |-> 3,
                                   match     |-> [l3 |-> "IP4", l4 |-> "TCP"],
                                   fwd       |-> "pipe",
                                   next_pipe |-> "m_pipe"])]
                ELSE m_root_pipe
         /\ hw_pc' = AfterTry(st, "commit_root")
    /\ UNCHANGED << source_ip_filter, source_ip, holders, hw_objs, m_pipe, not_hw >>

\* line 105: doca_flow_entries_process(context->flow_port(), 0, 0, 0)
CommitRoot ==
    /\ hw_pc = "commit_root"
    /\ \E st \in DocaStatus :
         /\ hw_log' = Append(hw_log, Call("process_root", st))
         /\ m_root_pipe' = IF st = "DOCA_SUCCESS" /\ m_root_pipe.state = "created"
                             THEN [m_root_pipe EXCEPT !.committed = Len(m_root_pipe.entries)]
                             ELSE m_root_pipe
         /\ hw_pc' = AfterTry(st, "rxpipe_done")
    /\ UNCHANGED << source_ip_filter, source_ip, holders, hw_objs, m_pipe, not_hw >>

\* line 106 and doca_source.cpp line 82: the constructor returns, m_rxpipe holds
\* the pipe, the stage is built
RxPipeDone ==
    /\ hw_pc = "rxpipe_done"
    /\ hw_objs' = [hw_objs EXCEPT !["rxpipe"] = "live"]
    /\ holders' = holders \cup { << "stage", "rxpipe" >> }
    /\ hw_pc' = "built"
    /\ UNCHANGED << source_ip_filter, source_ip, m_pipe, m_root_pipe, hw_log, not_hw >>

\* DOCA_TRY throws inside the DocaRxPipe constructor: the members m_rxq and
\* m_context are released; ~DocaRxPipe does not run for an object whose
\* constructor did not finish, and the constructor has no handler of its own
RxPipeThrow ==
    /\ hw_pc = "rxpipe_throw"
    /\ hw_log' = Append(hw_log, Throw("doca_error"))
    /\ holders' = { pr \in holders : pr[1] # "rxpipe" }
    /\ hw_objs' = [hw_objs EXCEPT !["rxpipe"] = "none"]
    /\ hw_pc' = "release"
    /\ UNCHANGED << source_ip_filter, source_ip, m_pipe, m_root_pipe, not_hw >>

----------------------------------------------------------------------------
(***************************************************************************)
(* Destruction: the members of the stage, ~DocaRxPipe                      *)
(***************************************************************************)

\* The stage is destroyed after it was built.
DestroyStage ==
    /\ hw_pc = "built"
    /\ hw_pc' = "release"
    /\ UNCHANGED << source_ip_filter, source_ip, holders, hw_objs, m_pipe, m_root_pipe,
                    hw_log, not_hw >>

\* The stage lets go of one of its members m_context, m_rxq, m_semaphore: when
\* the stage is destroyed, and when its constructor throws (lines 72-82).
\* The order of the members is the order of their declaration, which this file
\* does not show: any order.
ReleaseMember ==
    /\ hw_pc = "release"
    /\ \E o \in { "context", "rxq", "semaphore" } :
         /\ << "stage", o >> \in holders
         /\ LET r == Collect(holders \ { << "stage", o >> }, hw_objs, hw_log) IN
              /\ holders' = r.h
              /\ hw_objs' = r.objs
              /\ hw_log' = r.log
    /\ UNCHANGED << hw_pc, source_ip_filter, source_ip, m_pipe, m_root_pipe, not_hw >>

\* The stage lets go of m_rxpipe, its only holder: ~DocaRxPipe runs.
ReleaseRxPipe ==
    /\ hw_pc = "release"
    /\ << "stage", "rxpipe" >> \in holders
    /\ holders' = holders \ { << "stage", "rxpipe" >> }
    /\ hw_pc' = "rxpipe_dtor_first"
    /\ UNCHANGED << source_ip_filter, source_ip, hw_objs, m_pipe, m_root_pipe, hw_log,
                    not_hw >>

DestroyOrder_basic_first == << "m_pipe", "m_root_pipe" >>

\* doca_rx_pipe.cpp lines 110-111: the pipes in the order ~DocaRxPipe destroys them
DestroyOrder == << "m_root_pipe", "m_pipe" >>

\* doca_flow_pipe_destroy(pipe): the pipe and its entries are gone
Destroyed(pipe) == IF pipe.state = "created" THEN [state |-> "destroyed"] ELSE pipe

\* line 110 (the status of doca_flow_pipe_destroy is not looked at)
RxPipeDtorFirst ==
    /\ hw_pc = "rxpipe_dtor_first"
    /\ hw_log' = Append(hw_log, Call("destroy_" \o DestroyOrder[1], "DOCA_SUCCESS"))
    /\ m_root_pipe' = IF DestroyOrder[1] = "m_root_pipe" THEN Destroyed(m_root_pipe)
                      ELSE m_root_pipe
    /\ m_pipe' = IF DestroyOrder[1] = "m_pipe" THEN Destroyed(m_pipe) ELSE m_pipe
    /\ hw_pc' = "rxpipe_dtor_second"
    /\ UNCHANGED << source_ip_filter, source_ip, holders, hw_objs, not_hw >>

\* lines 111-112: the second pipe, then the members m_rxq and m_context
RxPipeDtorSecond ==
    /\ hw_pc = "rxpipe_dtor_second"
    /\ m_root_pipe' = IF DestroyOrder[2] = "m_root_pipe" THEN Destroyed(m_root_pipe)
                      ELSE m_root_pipe
    /\ m_pipe' = IF DestroyOrder[2] = "m_pipe" THEN Destroyed(m_pipe) ELSE m_pipe
    /\ LET r == Collect({ pr \in holders : pr[1] # "rxpipe" },
                        [hw_objs EXCEPT !["rxpipe"] = "destroyed"],
                        hw_log \o << Call("destroy_" \o DestroyOrder[2], "DOCA_SUCCESS"),
                                     Call("destroy_rxpipe", "DOCA_SUCCESS") >>) IN
         /\ holders' = r.h
         /\ hw_objs' = r.objs
         /\ hw_log' = r.log
    /\ hw_pc' = "release"
    /\ UNCHANGED << source_ip_filter, source_ip, not_hw >>

\* the stage holds nothing any more: its destructor, or the unwinding of its
\* constructor, is over
ReleaseDone ==
    /\ hw_pc = "release"
    /\ ~(\E pr \in holders : pr[1] = "stage")
    /\ hw_pc' = IF Thrown THEN "failed" ELSE "destroyed"
    /\ UNCHANGED << source_ip_filter, source_ip, holders, hw_objs, m_pipe, m_root_pipe,
                    hw_log, not_hw >>

NextHw ==
    \/ Construct
    \/ CheckFilter
    \/ MakeContext
    \/ MakeRxq
    \/ MakeSemaphore
    \/ BeginRxPipe
    \/ PipeCreateBasic
    \/ AddPlaceholder
    \/ CommitPlaceholder
    \/ PipeCreateRoot
    \/ AddRootEntry
    \/ CommitRoot
    \/ RxPipeDone
    \/ RxPipeThrow
    \/ DestroyStage
    \/ ReleaseMember
    \/ ReleaseRxPipe
    \/ RxPipeDtorFirst
    \/ RxPipeDtorSecond
    \/ ReleaseDone

----------------------------------------------------------------------------
(***************************************************************************)
(* Flow steering: where the pipes send a packet                            *)
(***************************************************************************)

\* the packets of the model: IPv4 or IPv6, TCP or UDP, from one of two sources
Packets ==
    [l3 : { "IP4", "IP6" }, l4 : { "TCP", "UDP" },
     src_ip : { << 1, 1, 1, 1 >>, << 1, 1, 1, 0 >> }]

\* a packet matches a match under a mask: the fields whose mask is not zero agree
MatchesMasked(pkt, match, mask) ==
    /\ (mask.l3 # 0 => pkt.l3 = match.l3)
    /\ (mask.l4 # 0 => pkt.l4 = match.l4)

\* a packet matches an entry given without mask: all the fields of the match agree
Matches(pkt, match) == pkt.l3 = match.l3 /\ pkt.l4 = match.l4

\* the basic pipe: an entry forwards what matches to the queue, the rest misses
SteerBasic(pkt) ==
    IF m_pipe.state # "created" THEN "nowhere"
    ELSE IF m_pipe.entries > 0 /\ MatchesMasked(pkt, m_pipe.match, m_pipe.match_mask)
           THEN m_pipe.fwd
           ELSE m_pipe.miss_fwd

\* the root pipe is where traffic enters: an entry forwards what matches to
\* its next pipe; what matches no entry is not handled by these pipes
Steer(pkt) ==
    IF m_root_pipe.state # "created" THEN "not_steered"
    ELSE IF \E i \in 1 .. Len(m_root_pipe.entries) : Matches(pkt, m_root_pipe.entries[i].match)
           THEN SteerBasic(pkt)
           ELSE "not_steered"

----------------------------------------------------------------------------
(***************************************************************************)
(* DOCA_TRY and RTE_TRY (doca/error.hpp) inside a constructor              *)
(***************************************************************************)

\* largest number of wrapped calls of the DocaContext constructor in the model
MaxTryLen == 3

NoException == [type |-> "none"]

InitTry ==
    /\ try_pc = "new"
    /\ try_body = << >>
    /\ try_ran = << >>
    /\ exception = NoException

\* doca_error.h, included at error.hpp line 22: the value of a doca_error_t
doca_error_t(status) == IF status = "DOCA_SUCCESS" THEN 0 ELSE 7

\* doca_get_error_string (error.hpp line 42): the description of a status
doca_get_error_string(status) == "description of " \o status

\* what an RTE call returns in the model: a negative errno, zero, or a
\* positive count
RteStatus == (0 - 1) .. 1

Digit(d) == << "0", "1", "2", "3", "4", "5", "6", "7", "8", "9" >>[d + 1]

RECURSIVE Digits(_)
Digits(n) == IF n < 10 THEN << Digit(n) >> ELSE Append(Digits(n \div 10), Digit(n % 10))

\* std::to_string of an int (error.hpp lines 41, 48): the decimal digits, a
\* minus sign in front of a negative number
to_string(n) == IF n < 0 THEN << "-" >> \o Digits(0 - n) ELSE Digits(n)

\* error.hpp lines 38-43: the doca_error thrown, its message as its pieces
throw_doca_error(error, file, line) ==
    [type |-> "doca_error",
     what |-> << "DOCA error encountered at: ", file, ":" >> \o to_string(line)
              \o << ": " >> \o to_string(doca_error_t(error))
              \o << " ", doca_get_error_string(error) >>]

\* error.hpp lines 45-49: the rte_error thrown, its message as its pieces
throw_rte_error(error, file, line) ==
    [type |-> "rte_error",
     what |-> << "RTE error encountered at: ", file, ":" >> \o to_string(line)
              \o << ": " >> \o to_string(error)]

RTE_TRY_nonzero(status) == status # 0

\* error.hpp lines 63-69: RTE_TRY(call) throws rte_error iff the status of the
\* call is negative
RTE_TRY(status) == status < 0

\* a wrapped call: the macro, the file and the lines the call stands on
Site(macro, file, first, last) ==
    [macro |-> macro, file |-> file, first |-> first, last |-> last]

\* doca_rx_pipe.cpp lines 61-105: the six calls DocaRxPipe::DocaRxPipe wraps in
\* DOCA_TRY; the fifth stands on lines 94 to 103
DocaRxPipeBody ==
    << Site("DOCA_TRY", "doca_rx_pipe.cpp", 61, 61),
       Site("DOCA_TRY", "doca_rx_pipe.cpp", 64, 64),
       Site("DOCA_TRY", "doca_rx_pipe.cpp", 65, 65),
       Site("DOCA_TRY", "doca_rx_pipe.cpp", 82, 82),
       Site("DOCA_TRY", "doca_rx_pipe.cpp", 94, 103),
       Site("DOCA_TRY", "doca_rx_pipe.cpp", 105, 105) >>

\* DocaContext::DocaContext: calls of the RTE library wrapped in RTE_TRY and
\* calls of the DOCA library wrapped in DOCA_TRY, in some order; the call
\* number i stands on line 10 * i
DocaContextBodies ==
    UNION { { [i \in 1 .. n |-> Site(m[i], "doca_context.cpp", 10 * i, 10 * i)] :
                m \in [1 .. n -> { "DOCA_TRY", "RTE_TRY" }] } : n \in 1 .. MaxTryLen }

\* a constructor starts
BeginConstructor ==
    /\ try_pc = "new"
    /\ \E body \in { DocaRxPipeBody } \cup DocaContextBodies : try_body' = body
    /\ try_pc' = "running"
    /\ UNCHANGED << try_ran, exception, not_try >>

\* __LINE__ inside the expansion of a macro whose invocation spans several
\* lines: the first or the last of them, as the compiler has it
LineOf(site) == { site.first, site.last }

\* where the constructor is after a statement that did not throw
AfterStatement == IF Len(try_ran) + 1 = Len(try_body) THEN "returned" ELSE "running"

\* error.hpp lines 55-61: the next statement of the constructor is DOCA_TRY(call)
DocaTryStatement ==
    /\ try_pc = "running"
    /\ try_body[Len(try_ran) + 1].macro = "DOCA_TRY"
    /\ \E status \in DocaStatus, line \in LineOf(try_body[Len(try_ran) + 1]) :
         /\ try_ran' = Append(try_ran, [status |-> status])
         /\ IF DOCA_TRY(status)
              THEN /\ exception' = throw_doca_error(status,
                                                    try_body[Len(try_ran) + 1].file, line)
                   /\ try_pc' = "thrown"
              ELSE /\ exception' = exception
                   /\ try_pc' = AfterStatement
    /\ UNCHANGED << try_body, not_try >>

\* error.hpp lines 63-69: the next statement of the constructor is RTE_TRY(call)
RteTryStatement ==
    /\ try_pc = "running"
    /\ try_body[Len(try_ran) + 1].macro = "RTE_TRY"
    /\ \E status \in RteStatus, line \in LineOf(try_body[Len(try_ran) + 1]) :
         /\ try_ran' = Append(try_ran, [status |-> status])
         /\ IF RTE_TRY(status)
              THEN /\ exception' = throw_rte_error(status,
                                                   try_body[Len(try_ran) + 1].file, line)
                   /\ try_pc' = "thrown"
              ELSE /\ exception' = exception
                   /\ try_pc' = AfterStatement
    /\ UNCHANGED << try_body, not_try >>

NextTry ==
    \/ BeginConstructor
    \/ DocaTryStatement
    \/ RteTryStatement

----------------------------------------------------------------------------
(***************************************************************************)
(* MessageControl (src/messages/control.cpp)                               *)
(***************************************************************************)

\* largest number of tasks one message holds in the model
MaxTasks == 2

\* a JSON object or a std::map: a function from its keys to their values
EmptyObject == << >>

Put(obj, key, value) ==
    [k \in (DOMAIN obj) \cup { key } |-> IF k = key THEN value ELSE obj[k]]

\* the members of the class: m_task_type_map, with the names of the two task
\* types the message at line 61 speaks of, and the values m_cm_type and
\* m_payload start with
m_task_type_map == [inference |-> "INFERENCE", training |-> "TRAINING"]

NoMessage == [alive |-> FALSE]

\* lines 30 and 32: m_config({{"metadata", nlohmann::json::object()}})
NewMessage ==
    [alive     |-> TRUE,
     m_config  |-> [metadata |-> EmptyObject],
     m_tasks   |-> EmptyObject,
     m_payload |-> "nullptr",
     m_cm_type |-> "NONE"]

InitControl ==
    /\ messages = [msg |-> NoMessage, copy |-> NoMessage]
    /\ mc_last = [op |-> "none"]
    /\ mc_written = [msg |-> "nullptr", copy |-> "nullptr"]

\* the inputs of the model
TaskTypeNames == { "inference", "training", "other" }
Payloads == { "nullptr", "meta_a", "meta_b" }

\* a config has any of the keys some_value, type, tasks and metadata
ConfigValues ==
    [some_value : { "42" },
     type       : { "inference", "training" },
     tasks      : { << [type |-> t, properties |-> "a"] >> : t \in TaskTypeNames },
     metadata   : { [k |-> "v"] }]

Configs ==
    { [k \in keys |-> c[k]] :
        keys \in SUBSET { "some_value", "type", "tasks", "metadata" }, c \in ConfigValues }

\* lines 52 and 113-114: the control type of a task type name, NONE when the
\* map does not hold the name
control_type(name) ==
    IF name \in DOMAIN m_task_type_map THEN m_task_type_map[name] ELSE "NONE"

\* lines 43-46
config_get(m) == m.m_config

add_task_unchecked(m, task_type, task) ==
    LET typed == IF m.m_cm_type = "NONE"
                   THEN [m EXCEPT !.m_cm_type = control_type(task_type)]
                   ELSE m
    IN  [m |-> [typed EXCEPT !.m_tasks =
                  Put(@, task_type,
                      IF task_type \in DOMAIN typed.m_tasks
                        THEN Append(typed.m_tasks[task_type], task)
                        ELSE << task >>)],
         threw |-> FALSE]

\* lines 48-65: add_task; the message after the call and whether it threw
add_task(m, task_type, task) ==
    LET typed == IF m.m_cm_type = "NONE"
                   THEN [m EXCEPT !.m_cm_type = control_type(task_type)]
                   ELSE m
    IN  IF control_type(task_type) # "NONE" /\ typed.m_cm_type # control_type(task_type)
          THEN [m |-> typed, threw |-> TRUE]
          ELSE [m |-> [typed EXCEPT !.m_tasks =
                         Put(@, task_type,
                             IF task_type \in DOMAIN typed.m_tasks
                               THEN Append(typed.m_tasks[task_type], task)
                               ELSE << task >>)],
                threw |-> FALSE]

\* lines 72-80: set_metadata
set_metadata(m, key, value) ==
    [m EXCEPT !.m_config = Put(@, "metadata", Put(m.m_config["metadata"], key, value))]

\* lines 122-129: add_task for every task of the list, up to the first that throws
RECURSIVE add_tasks(_, _)
add_tasks(m, tasks) ==
    IF tasks = << >> THEN [m |-> m, threw |-> FALSE]
    ELSE LET r == add_task(m, Head(tasks).type, Head(tasks).properties) IN
         IF r.threw THEN r ELSE add_tasks(r.m, Tail(tasks))

\* lines 131-138: set_metadata for every key of the metadata object
RECURSIVE set_all_metadata(_, _, _)
set_all_metadata(m, metadata, keys) ==
    IF keys = { } THEN m
    ELSE LET key == CHOOSE k \in keys : TRUE IN
         set_all_metadata(set_metadata(m, key, metadata[key]), metadata, keys \ { key })

\* lines 108-139: config(config); the message after the call and whether it threw
config_set(m, config) ==
    LET typed == IF "type" \in DOMAIN config /\ m.m_cm_type = "NONE"
                   THEN [m EXCEPT !.m_cm_type = control_type(config["type"])]
                   ELSE m
        tasked == IF "tasks" \in DOMAIN config
                    THEN add_tasks(typed, config["tasks"])
                    ELSE [m |-> typed, threw |-> FALSE]
    IN  IF tasked.threw THEN tasked
        ELSE [m |-> IF "metadata" \in DOMAIN config
                      THEN set_all_metadata(tasked.m, config["metadata"],
                                            DOMAIN config["metadata"])
                      ELSE tasked.m,
              threw |-> FALSE]

\* the number of tasks a message holds
RECURSIVE CountTasks(_, _)
CountTasks(tasks, names) ==
    IF names = { } THEN 0
    ELSE LET n == CHOOSE x \in names : TRUE IN
         Len(tasks[n]) + CountTasks(tasks, names \ { n })

TotalTasks(m) == CountTasks(m.m_tasks, DOMAIN m.m_tasks)

\* line 30: MessageControl()
McDefault ==
    /\ ~messages["msg"].alive
    /\ messages' = [messages EXCEPT !["msg"] = NewMessage]
    /\ mc_last' = [op |-> "MessageControl()"]
    /\ mc_written' = [mc_written EXCEPT !["msg"] = "nullptr"]
    /\ UNCHANGED not_mc

\* lines 32-35: MessageControl(config); when config(config) throws there is no
\* message
McFromConfig ==
    /\ ~messages["msg"].alive
    /\ \E config \in Configs :
         \E r \in { config_set(NewMessage, config) } :
            /\ messages' = IF r.threw THEN messages ELSE [messages EXCEPT !["msg"] = r.m]
            /\ mc_last' = [op |-> "MessageControl(config)", arg |-> config, threw |-> r.threw]
    /\ mc_written' = [mc_written EXCEPT !["msg"] = "nullptr"]
    /\ UNCHANGED not_mc

\* lines 108-139: msg.config(config)
McConfig ==
    /\ messages["msg"].alive
    /\ ~messages["copy"].alive
    /\ \E config \in Configs :
         \E r \in { config_set(messages["msg"], config) } :
            /\ TotalTasks(r.m) <= MaxTasks
            /\ messages' = [messages EXCEPT !["msg"] = r.m]
            /\ mc_last' = [op |-> "config(config)", arg |-> config, threw |-> r.threw]
    /\ UNCHANGED << mc_written, not_mc >>

\* lines 150-153: msg.payload(p)
McSetPayload ==
    /\ messages["msg"].alive
    /\ \E p \in Payloads :
         /\ messages' = [messages EXCEPT !["msg"].m_payload = p]
         /\ mc_written' = [mc_written EXCEPT !["msg"] = p]
         /\ mc_last' = [op |-> "payload(p)", arg |-> p]
    /\ UNCHANGED not_mc

payload_steal(m) == [result |-> m.m_payload, m |-> [m EXCEPT !.m_payload = "nullptr"]]

\* lines 141-148: payload(); what it returns and the message after the call
payload_get(m) == [result |-> m.m_payload, m |-> m]

\* msg.payload(), and whether it is the first read since something else was
\* called or a later one
McGetPayload ==
    /\ messages["msg"].alive
    /\ messages' = [messages EXCEPT !["msg"] = payload_get(messages["msg"]).m]
    /\ mc_last' = [op     |-> "payload()",
                   result |-> payload_get(messages["msg"]).result,
                   nth    |-> IF mc_last.op = "payload()" THEN 2 ELSE 1]
    /\ UNCHANGED << mc_written, not_mc >>

NextControl ==
    \/ McDefault
    \/ McFromConfig
    \/ McConfig
    \/ McSetPayload
    \/ McGetPayload

----------------------------------------------------------------------------
(***************************************************************************)
(* MessageControl: the task lists and the copy constructor                 *)
(***************************************************************************)

\* the two messages of the model and the tasks add_task is called with
Slots == { "msg", "copy" }
TaskProperties == { "a", "b" }

copy_constructor_all_members(other) == other

\* lines 37-41: MessageControl(const MessageControl& other) assigns m_config
\* and m_tasks; m_payload and m_cm_type keep the values they start with
copy_constructor(other) ==
    [NewMessage EXCEPT !.m_config = other.m_config, !.m_tasks = other.m_tasks]

\* lines 67-70: has_task
has_task(m, task_type) ==
    task_type \in DOMAIN m.m_tasks /\ Len(m.m_tasks[task_type]) > 0

pop_task_newest(m, task_type) ==
    IF task_type \notin DOMAIN m.m_tasks
      THEN [m |-> m, result |-> "none", threw |-> "out_of_range"]
    ELSE IF m.m_tasks[task_type] = << >>
      THEN [m |-> m, result |-> "none", threw |-> "runtime_error"]
    ELSE LET task_set == m.m_tasks[task_type] IN
         [m      |-> [m EXCEPT !.m_tasks[task_type] = SubSeq(task_set, 1, Len(task_set) - 1)],
          result |-> task_set[Len(task_set)],
          threw  |-> "none"]

\* lines 92-106: pop_task; the message after the call, what it returned and
\* what it threw.  m_tasks.at(task_type) throws for a type name that no task
\* was ever added with, line 105 for a list that is empty.
pop_task(m, task_type) ==
    IF task_type \notin DOMAIN m.m_tasks
      THEN [m |-> m, result |-> "none", threw |-> "out_of_range"]
    ELSE IF m.m_tasks[task_type] = << >>
      THEN [m |-> m, result |-> "none", threw |-> "runtime_error"]
    ELSE [m      |-> [m EXCEPT !.m_tasks[task_type] = Tail(@)],
          result |-> Head(m.m_tasks[task_type]),
          threw  |-> "none"]

\* lines 172-180: ControlMessageProxy::create(other) and copy(self)
McCopy ==
    /\ messages["msg"].alive
    /\ ~messages["copy"].alive
    /\ messages' = [messages EXCEPT !["copy"] = copy_constructor(messages["msg"])]
    /\ mc_last' = [op |-> "copy"]
    /\ mc_written' = [mc_written EXCEPT !["copy"] = "nullptr"]
    /\ UNCHANGED not_mc

\* A copy holds its own m_config and m_tasks and shares nothing with its
\* original, so calls on the two commute: once the copy exists the model goes
\* on with the copy and leaves the original as it was.

\* lines 48-65: m.add_task(task_type, task)
McAddTask ==
    \E slot \in Slots, task_type \in TaskTypeNames, task \in TaskProperties :
       /\ messages[slot].alive
       /\ slot = "msg" => ~messages["copy"].alive
       /\ \E r \in { add_task(messages[slot], task_type, task) } :
            /\ TotalTasks(r.m) <= MaxTasks
            /\ messages' = [messages EXCEPT ![slot] = r.m]
            /\ mc_last' = [op |-> "add_task", slot |-> slot, task_type |-> task_type,
                           task |-> task, before |-> messages[slot], threw |-> r.threw]
       /\ UNCHANGED << mc_written, not_mc >>

\* lines 92-106: m.pop_task(task_type)
McPopTask ==
    \E slot \in Slots, task_type \in TaskTypeNames :
       /\ messages[slot].alive
       /\ slot = "msg" => ~messages["copy"].alive
       /\ \E r \in { pop_task(messages[slot], task_type) } :
            /\ messages' = [messages EXCEPT ![slot] = r.m]
            /\ mc_last' = [op |-> "pop_task", slot |-> slot, task_type |-> task_type,
                           before |-> messages[slot], result |-> r.result, threw |-> r.threw]
       /\ UNCHANGED << mc_written, not_mc >>

NextControlTasks ==
    \/ McDefault
    \/ McFromConfig
    \/ McConfig
    \/ McCopy
    \/ McAddTask
    \/ McPopTask

----------------------------------------------------------------------------
(***************************************************************************)
(* The receive buffers of DocaSourceStage::build at their real sizes       *)
(***************************************************************************)

\* common.hpp lines 26-32
PACKETS_PER_THREAD == 4
THREADS_PER_BLOCK == 1024
PACKETS_PER_BLOCK == PACKETS_PER_THREAD * THREADS_PER_BLOCK
MAX_PKT_RECEIVE == PACKETS_PER_BLOCK
MAX_PKT_SIZE == 4096

\* doca_source.cpp line 95: packet_sizes_d, in int32_t entries
packet_sizes_d_size == 2048

\* doca_source.cpp line 96: packet_buffer_d, in bytes
packet_buffer_d_size == 2048 * 65536

InitReceive ==
    /\ rx_pc = "idle"
    /\ rx_count = 0
    /\ rx_sizes_end = 0
    /\ rx_bytes_end = 0

\* the receive kernel drains up to MAX_PKT_RECEIVE packets: it writes the size
\* of packet i into entry i of the size array and the bytes of packet i into
\* the byte buffer from i * MAX_PKT_SIZE on, MAX_PKT_SIZE bytes at most
ReceiveAtScale ==
    /\ rx_pc = "idle"
    /\ \E count \in 0 .. MAX_PKT_RECEIVE :
         /\ rx_count' = count
         /\ rx_sizes_end' = count
         /\ rx_bytes_end' = count * MAX_PKT_SIZE
    /\ rx_pc' = "received"
    /\ UNCHANGED not_rx

\* line 101: the next iteration of the loop; the kernel starts from packet 0
ReceiveAgain ==
    /\ rx_pc = "received"
    /\ rx_pc' = "idle"
    /\ rx_count' = 0
    /\ rx_sizes_end' = 0
    /\ rx_bytes_end' = 0
    /\ UNCHANGED not_rx

NextReceive ==
    \/ ReceiveAtScale
    \/ ReceiveAgain

----------------------------------------------------------------------------
(***************************************************************************)
(* IDataTable::get_info and get_mutable_info (objects/data_table.cpp)      *)
(***************************************************************************)

\* the threads that use one table; a thread holds one handle at a time
TableThreads == { "t1", "t2", "t3" }

NoOwner == "none"

InitTable ==
    /\ dt_pc = [t \in TableThreads |-> "idle"]
    /\ m_mutex = [shared |-> { }, unique |-> NoOwner]

unique_lock_beside_readers(mutex) == mutex.unique = NoOwner

\* std::shared_lock lock(m_mutex) at line 33 returns once no thread owns the
\* mutex exclusively
shared_lock(mutex) == mutex.unique = NoOwner

\* std::unique_lock lock(m_mutex) at line 48 returns once no thread owns the
\* mutex in either mode
unique_lock(mutex) == mutex.unique = NoOwner /\ mutex.shared = { }

\* a thread calls get_info
CallGetInfo(t) ==
    /\ dt_pc[t] = "idle"
    /\ dt_pc' = [dt_pc EXCEPT ![t] = "get_info"]
    /\ UNCHANGED << m_mutex, not_dt >>

\* line 33
GetInfoLock(t) ==
    /\ dt_pc[t] = "get_info"
    /\ shared_lock(m_mutex)
    /\ m_mutex' = [m_mutex EXCEPT !.shared = @ \cup { t }]
    /\ dt_pc' = [dt_pc EXCEPT ![t] = "info_locked"]
    /\ UNCHANGED not_dt

\* lines 36-39: the table data is read and the lock moves into the TableInfo
GetInfoReturn(t) ==
    /\ dt_pc[t] = "info_locked"
    /\ dt_pc' = [dt_pc EXCEPT ![t] = "TableInfo"]
    /\ UNCHANGED << m_mutex, not_dt >>

\* the TableInfo is destroyed and its std::shared_lock with it
DestroyTableInfo(t) ==
    /\ dt_pc[t] = "TableInfo"
    /\ m_mutex' = [m_mutex EXCEPT !.shared = @ \ { t }]
    /\ dt_pc' = [dt_pc EXCEPT ![t] = "idle"]
    /\ UNCHANGED not_dt

\* a thread calls get_mutable_info
CallGetMutableInfo(t) ==
    /\ dt_pc[t] = "idle"
    /\ dt_pc' = [dt_pc EXCEPT ![t] = "get_mutable_info"]
    /\ UNCHANGED << m_mutex, not_dt >>

\* line 48
GetMutableInfoLock(t) ==
    /\ dt_pc[t] = "get_mutable_info"
    /\ unique_lock(m_mutex)
    /\ m_mutex' = [m_mutex EXCEPT !.unique = t]
    /\ dt_pc' = [dt_pc EXCEPT ![t] = "mutable_locked"]
    /\ UNCHANGED not_dt

\* lines 51-54: the table data is read and the lock moves into the MutableTableInfo
GetMutableInfoReturn(t) ==
    /\ dt_pc[t] = "mutable_locked"
    /\ dt_pc' = [dt_pc EXCEPT ![t] = "MutableTableInfo"]
    /\ UNCHANGED << m_mutex, not_dt >>

\* the MutableTableInfo is destroyed and its std::unique_lock with it
DestroyMutableTableInfo(t) ==
    /\ dt_pc[t] = "MutableTableInfo"
    /\ m_mutex' = [m_mutex EXCEPT !.unique = NoOwner]
    /\ dt_pc' = [dt_pc EXCEPT ![t] = "idle"]
    /\ UNCHANGED not_dt

NextTable ==
    \E t \in TableThreads :
        \/ CallGetInfo(t)
        \/ GetInfoLock(t)
        \/ GetInfoReturn(t)
        \/ DestroyTableInfo(t)
        \/ CallGetMutableInfo(t)
        \/ GetMutableInfoLock(t)
        \/ GetMutableInfoReturn(t)
        \/ DestroyMutableTableInfo(t)

----------------------------------------------------------------------------
(***************************************************************************)
(* PreallocateStage (stages/preallocate.cpp)                               *)
(***************************************************************************)

\* largest number of messages the upstream emits
MaxInputs == 3

\* the columns a message arrives with and line 56: m_needed_columns
InputColumns == SUBSET { "a", "b" }
m_needed_columns == { "b", "c" }

NoInput == [id |-> 0]

InitPreallocate ==
    /\ pa_pc = "wait"
    /\ pa_upstream = "active"
    /\ pa_received = 0
    /\ pa_x = NoInput
    /\ pa_locked = { }
    /\ pa_out = << >>

\* MutableTableInfo::insert_missing_columns: the columns of the table afterwards
insert_missing_columns(table, columns) == table \cup columns

scope_end_keeps_lock(locked, id) == locked

\* line 38: the scope of `table` ends, the MutableTableInfo is destroyed and
\* the exclusive lock of the message's table is released
scope_end(locked, id) == locked \ { id }

\* line 65: the upstream emits a message and the handler is entered
PaOnNext ==
    /\ pa_pc = "wait"
    /\ pa_upstream = "active"
    /\ pa_received < MaxInputs
    /\ \E columns \in InputColumns :
         pa_x' = [id |-> pa_received + 1, columns |-> columns, inserted_locked |-> FALSE]
    /\ pa_received' = pa_received + 1
    /\ pa_pc' = "get_mutable_info"
    /\ UNCHANGED << pa_upstream, pa_locked, pa_out, not_pa >>

\* line 36: auto table = msg->get_mutable_info()
PaGetMutableInfo ==
    /\ pa_pc = "get_mutable_info"
    /\ pa_x.id \notin pa_locked
    /\ pa_locked' = pa_locked \cup { pa_x.id }
    /\ pa_pc' = "insert"
    /\ UNCHANGED << pa_upstream, pa_received, pa_x, pa_out, not_pa >>

\* line 37: table.insert_missing_columns(columns)
PaInsert ==
    /\ pa_pc = "insert"
    /\ pa_x' = [pa_x EXCEPT !.columns = insert_missing_columns(@, m_needed_columns),
                            !.inserted_locked = pa_x.id \in pa_locked]
    /\ pa_pc' = "scope_end"
    /\ UNCHANGED << pa_upstream, pa_received, pa_locked, pa_out, not_pa >>

\* line 38: preallocate returns
PaScopeEnd ==
    /\ pa_pc = "scope_end"
    /\ pa_locked' = scope_end(pa_locked, pa_x.id)
    /\ pa_pc' = "on_next"
    /\ UNCHANGED << pa_upstream, pa_received, pa_x, pa_out, not_pa >>

\* line 68: output.on_next(std::move(x))
PaForward ==
    /\ pa_pc = "on_next"
    /\ pa_out' = Append(pa_out, [kind |-> "on_next", id |-> pa_x.id, columns |-> pa_x.columns,
                                 inserted_locked |-> pa_x.inserted_locked,
                                 locked |-> pa_locked])
    /\ pa_x' = NoInput
    /\ pa_pc' = "wait"
    /\ UNCHANGED << pa_upstream, pa_received, pa_locked, not_pa >>

\* line 70: the upstream fails, output.on_error(error_ptr)
PaOnError ==
    /\ pa_pc = "wait"
    /\ pa_upstream = "active"
    /\ pa_upstream' = "errored"
    /\ pa_out' = Append(pa_out, [kind |-> "on_error"])
    /\ UNCHANGED << pa_pc, pa_received, pa_x, pa_locked, not_pa >>

\* line 71: the upstream completes, output.on_completed()
PaOnCompleted ==
    /\ pa_pc = "wait"
    /\ pa_upstream = "active"
    /\ pa_upstream' = "completed"
    /\ pa_out' = Append(pa_out, [kind |-> "on_completed"])
    /\ UNCHANGED << pa_pc, pa_received, pa_x, pa_locked, not_pa >>

NextPreallocate ==
    \/ PaOnNext
    \/ PaGetMutableInfo
    \/ PaInsert
    \/ PaScopeEnd
    \/ PaForward
    \/ PaOnError
    \/ PaOnCompleted

----------------------------------------------------------------------------
(***************************************************************************)
(* MultiResponseMessage (messages/multi_response.cpp)                      *)
(***************************************************************************)

\* number of rows of the dataframe and of the response memory, and the number
\* of get_slice calls made one on the other
MaxRows == 3
MaxSlices == 2

NoMulti == [made |-> FALSE]

InitMulti ==
    /\ mr_orig = NoMulti
    /\ mr_cur = NoMulti
    /\ mr_slices = << >>

\* lines 40-50: the constructor
MultiResponseMessage(mess_offset, mess_count, offset, count) ==
    [made |-> TRUE, mess_offset |-> mess_offset, mess_count |-> mess_count,
     offset |-> offset, count |-> count]

\* lines 97-106: internal_get_slice, where mess_count == count holds; the
\* memory offset of the new message is start
internal_get_slice(m, start, stop) ==
    MultiResponseMessage(m.mess_offset + start, (m.mess_offset + stop) - (m.mess_offset + start),
                         start, stop - start)

\* lines 91-95
get_slice(m, start, stop) == internal_get_slice(m, start, stop)

\* multi.hpp lines 82-91: the rows of the dataframe the message stands for
get_meta(m) == m.mess_offset .. (m.mess_offset + m.mess_count - 1)

\* lines 52-65: get_output, as the rows of the response memory in the tensor
\* it returns
get_output(m) == m.offset .. (m.offset + m.count - 1)

\* lines 40-50: a message over part of a dataframe and of a response memory,
\* with as many memory rows as dataframe rows
MrConstruct ==
    /\ ~mr_orig.made
    /\ \E mess_offset \in 0 .. MaxRows, offset \in 0 .. MaxRows, count \in 1 .. MaxRows :
         /\ mess_offset + count <= MaxRows
         /\ offset + count <= MaxRows
         /\ mr_orig' = MultiResponseMessage(mess_offset, count, offset, count)
         /\ mr_cur' = MultiResponseMessage(mess_offset, count, offset, count)
    /\ UNCHANGED << mr_slices, not_mr >>

\* lines 91-106: get_slice(start, stop) on the message reached so far; line 99
\* lets it through only with mess_count == count
MrGetSlice ==
    /\ mr_cur.made
    /\ Len(mr_slices) < MaxSlices
    /\ mr_cur.mess_count = mr_cur.count
    /\ \E start \in 0 .. mr_cur.count, stop \in 0 .. mr_cur.count :
         /\ start <= stop
         /\ mr_cur' = get_slice(mr_cur, start, stop)
         /\ mr_slices' = Append(mr_slices, << start, stop >>)
    /\ UNCHANGED << mr_orig, not_mr >>

NextMulti ==
    \/ MrConstruct
    \/ MrGetSlice

----------------------------------------------------------------------------
(* Specifications *)

Init == InitSource /\ InitConvert /\ cc_pc = "idle" /\ cc_in = << >>
          /\ cc_abc = NoBuffer /\ cc_a = NoBuffer /\ cc_a_bc = NoBuffer /\ InitHw
          /\ InitTry /\ InitControl /\ InitReceive /\ InitTable /\ InitPreallocate /\ InitMulti

SpecSource == Init /\ [][NextSource]_vars

\* The capture loop runs on its own thread and every kernel call returns within
\* its timeout: the loop always takes its next step.
FairSource == SpecSource /\ WF_vars(EngineStep)

SpecConvert == Init /\ [][NextConvert]_vars

\* buffer_reader runs on its own fiber and is scheduled whenever it can run; an
\* await_write that has room completes.
FairConvert == SpecConvert /\ WF_vars(ReaderStep) /\ WF_vars(AwaitWrite)

\* fiber.join() returns once the fiber it waits for has finished
FairConvertJoin == SpecConvert /\ WF_vars(ReaderStep) /\ WF_vars(AwaitWrite) /\ WF_vars(Join)

\* both stages idle, three buffers ready for concat_packet_buffers
InitThreeBuffers == InitSource /\ InitConvert /\ InitConcat /\ InitHw
                      /\ InitTry /\ InitControl /\ InitReceive /\ InitTable /\ InitPreallocate /\ InitMulti

SpecConcat == InitThreeBuffers /\ [][NextConcat]_vars

\* the capture loop with runtime failures
SpecSourceFaults == Init /\ [][NextSourceFaults]_vars

\* construction and destruction of the stage and its hardware objects
SpecHw == Init /\ [][NextHw]_vars

\* a constructor made of calls wrapped in DOCA_TRY and RTE_TRY
SpecTry == Init /\ [][NextTry]_vars

\* one MessageControl: construction, config and payload
SpecControl == Init /\ [][NextControl]_vars

\* construct, copy, config, add_task and pop_task on a message and its copy
SpecControlTasks == Init /\ [][NextControlTasks]_vars

\* the threads that take handles of one table
SpecTable == Init /\ [][NextTable]_vars

\* the preallocate stage fed by an upstream that emits, fails or completes
SpecPreallocate == Init /\ [][NextPreallocate]_vars

\* a response message and the slices taken of it
SpecMulti == Init /\ [][NextMulti]_vars

\* one receive-kernel call with the buffers and the limits at their real sizes
SpecReceive == Init /\ [][NextReceive]_vars

----------------------------------------------------------------------------
(***************************************************************************)
(* Properties of the capture engine                                        *)
(***************************************************************************)

\* C1: idle polling is allocation-free.  In a poll cycle whose receive kernel
\* reported packet count 0, no per-field output buffer is allocated, the gather
\* kernel is not invoked, nothing is emitted, and the loop is on its way back to
\* the exit-flag check (never in the allocate / gather / advance / emit steps).
C1_IdlePollAllocationFree ==
    (cyc.recv /\ packet_count_d = 0) =>
        /\ cyc.allocs = 0
        /\ cyc.gathers = 0
        /\ cyc.emits = 0
        /\ out_bufs = NoBufs
        /\ src_pc \notin {"alloc", "gather", "advance", "emit"}

\* an idle poll has completed and the loop is back at the exit-flag check
C1_Witness ==
    /\ cyc.recv
    /\ packet_count_d = 0
    /\ src_pc = "check_exit"

\* C5: cancellation terminates the poll loop.  After the exit flag is set the
\* loop launches the receive kernel at most once more and then reaches its
\* stopped state.
C5_CancellationTerminates ==
    /\ [](recv_after_exit <= 1)
    /\ (exit_condition = 1) ~> (src_pc = "done")

\* the flag was set between the flag check and the kernel launch, one more
\* receive ran, and the loop stopped
C5_Witness ==
    /\ exit_condition = 1
    /\ recv_after_exit = 1
    /\ src_pc = "done"

\* C6: on observing the exit flag set the engine signals completion downstream:
\* once the engine has returned, the downstream observer has received exactly
\* one completion notification, and it was the last thing it received.
C6_CompletionSignalled ==
    src_pc = "done" =>
        /\ src_downstream.completed = 1
        /\ src_downstream.last = "completed"

\* C7: the semaphore ring cursor starts at 0, always lies in 0 .. capacity-1,
\* changes only by +1 modulo the capacity, changes exactly once in a cycle that
\* drained packets and not at all in a zero-packet cycle.
C7_CursorRing ==
    /\ semaphore_idx_d = 0
    /\ [](/\ semaphore_idx_d \in 0 .. (SEM_SIZE - 1)
          /\ (src_pc = "emit" => (packet_count > 0 /\ cyc.advances = 1))
          /\ ((cyc.recv /\ packet_count_d = 0) => cyc.advances = 0))
    /\ [][ semaphore_idx_d' # semaphore_idx_d =>
             /\ semaphore_idx_d' = (semaphore_idx_d + 1) % SEM_SIZE
             /\ packet_count > 0
             /\ cyc.advances = 0
             /\ cyc'.advances = 1 ]_vars

\* the cursor has gone once around the ring and wrapped to slot 0
C7_Witness ==
    /\ semaphore_idx_d = 0
    /\ cyc.advances = 1
    /\ src_pc = "emit"

----------------------------------------------------------------------------
(***************************************************************************)
(* Properties of the batching stage                                        *)
(***************************************************************************)

\* the row a downstream consumer should see for packet number p
ExpectedRow(p) ==
    [src_ip |-> integers_to_ipv4(p), data |-> PayloadOf(p, p % (MaxPld + 1))]

RECURSIVE SumCounts(_)
SumCounts(bufs) ==
    IF bufs = << >> THEN 0 ELSE Head(bufs).m_num_packets + SumCounts(Tail(bufs))

RECURSIVE SumPayload(_)
SumPayload(bufs) ==
    IF bufs = << >> THEN 0 ELSE Len(Head(bufs).m_payload_buffer) + SumPayload(Tail(bufs))

\* the rows of the packets written to the channel, in the order written
WrittenRows == [p \in 1 .. SumCounts(written) |-> ExpectedRow(p)]

RECURSIVE RowsOf(_)
RowsOf(events) ==
    IF events = << >> THEN << >>
    ELSE (IF Head(events).kind = "batch" THEN Head(events).table ELSE << >>)
            \o RowsOf(Tail(events))

\* the rows the downstream observer has received, in the order received
DownRows == RowsOf(cv_downstream)

IsPrefix(s, t) == Len(s) <= Len(t) /\ s = SubSeq(t, 1, Len(s))

RECURSIVE InWindow(_, _)
InWindow(log, w) ==
    IF log = << >> THEN << >>
    ELSE (IF Head(log).win = w THEN << Head(log).buf >> ELSE << >>)
            \o InWindow(Tail(log), w)

\* the buffers read in window w, and the batches sent in window w
WinReads(w) == InWindow(read_log, w)
WinEmits(w) == InWindow(emit_log, w)

HeadersOf(bufs) == FlattenTo([i \in 1 .. Len(bufs) |-> bufs[i].m_header_buffer], Len(bufs))
PayloadsOf(bufs) == FlattenTo([i \in 1 .. Len(bufs) |-> bufs[i].m_payload_buffer], Len(bufs))
PayloadSizesOf(bufs) ==
    FlattenTo([i \in 1 .. Len(bufs) |-> bufs[i].m_payload_sizes_buffer], Len(bufs))

\* Every batch holds the bytes of the buffers of its window, buffer after buffer,
\* and downstream sees the written packets in the order written, so far as it
\* has seen them.
OrderedSoFar ==
    /\ IsPrefix(DownRows, WrittenRows)
    /\ \A k \in 1 .. Len(emit_log) :
         LET reads == WinReads(emit_log[k].win) IN
         /\ emit_log[k].buf.m_header_buffer = HeadersOf(reads)
         /\ emit_log[k].buf.m_payload_buffer = PayloadsOf(reads)
         /\ emit_log[k].buf.m_payload_sizes_buffer = PayloadSizesOf(reads)

\* C2: order preservation end to end.  The packets seen downstream are exactly
\* the packets of the buffers written to the channel, in the order written:
\* never out of order or duplicated, and complete once the accumulation loop has
\* returned; inside a batch the bytes of buffer i precede those of buffer i+1.
C2_OrderPreservedEndToEnd ==
    /\ OrderedSoFar
    /\ (reader_pc = "done" /\ cv_subscribed) => DownRows = WrittenRows

\* C3: windowed batching.  A window in which at least one buffer was read sends
\* exactly one batch, a window in which none was read sends none; the batch's
\* packet count and payload byte count are the sums over the buffers read in
\* that window; nothing is pending when a window starts.
C3_WindowedBatching ==
    /\ (reader_pc \in {"outer", "done"} => packets = << >>)
    /\ \A w \in 1 .. window :
         LET reads    == WinReads(w)
             emits    == WinEmits(w)
             finished == w < window \/ reader_pc \in {"outer", "done"}
         IN  /\ Len(emits) <= 1
             /\ (reads = << >> => emits = << >>)
             /\ ((finished /\ reads # << >>) => Len(emits) = 1)
             /\ (emits # << >> =>
                    /\ emits[1].m_num_packets = SumCounts(reads)
                    /\ Len(emits[1].m_payload_buffer) = SumPayload(reads))

\* an empty window, a window of several buffers and a later window have passed
C3_Witness ==
    /\ Len(emit_log) >= 2
    /\ \E w \in 1 .. window : WinReads(w) = << >> /\ w < window
    /\ \E w \in 1 .. window : Len(WinReads(w)) >= 2 /\ WinEmits(w) # << >>

\* C4: drain on close.  When the accumulation loop has terminated, every buffer
\* written to the channel has been read, in the order written, and is part of
\* exactly one batch sent.
C4_DrainOnClose ==
    reader_pc = "done" =>
        /\ [i \in 1 .. Len(read_log) |-> read_log[i].buf] = written
        /\ HeadersOf([k \in 1 .. Len(emit_log) |-> emit_log[k].buf]) = HeadersOf(written)

\* C8 as amended: the buffer on_raw_packet_message hands to the channel has
\* header_buffer.size() = 4 * count, payload_sizes_buffer.size() = 4 * count
\* (count 32-bit entries) and payload_buffer.size() = the sum of the payload sizes.
C8_BufferStructure ==
    /\ prod_pc = "await_write" =>
         /\ packet_buffer.m_num_packets = raw_msg.count
         /\ Len(packet_buffer.m_header_buffer) = raw_msg.count * 4
         /\ Len(packet_buffer.m_payload_sizes_buffer) = raw_msg.count * 4
         /\ Len(packet_buffer.m_payload_buffer) = SumSeq(raw_msg.pkt_pld_size_list)
    /\ \A i \in 1 .. Len(m_buffer_channel.q) :
         LET b == m_buffer_channel.q[i] IN
         /\ Len(b.m_header_buffer) = b.m_num_packets * 4
         /\ Len(b.m_payload_sizes_buffer) = b.m_num_packets * 4
         /\ Len(b.m_payload_buffer) =
               SumSeq([k \in 1 .. b.m_num_packets |-> U32At(b.m_payload_sizes_buffer, k)])

\* C8 as stated: payload_sizes_buffer.size() = count
C8_SizesBufferIsCount ==
    prod_pc = "await_write" =>
        /\ Len(packet_buffer.m_header_buffer) = raw_msg.count * 4
        /\ Len(packet_buffer.m_payload_sizes_buffer) = raw_msg.count
        /\ Len(packet_buffer.m_payload_buffer) = SumSeq(raw_msg.pkt_pld_size_list)

\* a buffer of several packets with a non-empty payload is about to be written
\* while another one is in the channel
C8_Witness ==
    /\ prod_pc = "await_write"
    /\ packet_buffer.m_num_packets >= 2
    /\ Len(packet_buffer.m_payload_buffer) >= 1
    /\ m_buffer_channel.q # << >>

\* C9: batch merge is associative.  Concatenating [A, B, C] gives the same packet
\* count, the same byte totals and the same bytes as concatenating [A] and then
\* concatenating the result with [B, C].
C9_ConcatAssociative ==
    cc_pc = "done" =>
        /\ cc_a_bc = cc_abc
        /\ cc_abc.m_num_packets = SumCounts(cc_in)
        /\ cc_abc.m_header_buffer = HeadersOf(cc_in)
        /\ cc_abc.m_payload_buffer = PayloadsOf(cc_in)
        /\ cc_abc.m_payload_sizes_buffer = PayloadSizesOf(cc_in)

\* both ways have been computed for buffers of different sizes
C9_Witness ==
    /\ cc_pc = "done"
    /\ cc_in[1].m_num_packets # cc_in[2].m_num_packets
    /\ Len(cc_in[1].m_payload_buffer) >= 1
    /\ Len(cc_in[3].m_payload_buffer) >= 1

\* C10: the handoff channel is bounded and blocking.  It never holds more than
\* its configured capacity; no write completes while it is full; a producer
\* waiting in await_write gets its buffer in (the accumulation loop makes room).
C10_BoundedBlocking ==
    /\ [](Len(m_buffer_channel.q) <= ChannelCapacity)
    /\ [][Len(m_buffer_channel.q) = ChannelCapacity => written' = written]_vars
    /\ (prod_pc = "await_write") ~> (prod_pc = "idle")

\* the producer is blocked on a full channel
C10_Witness ==
    /\ prod_pc = "await_write"
    /\ Len(m_buffer_channel.q) = ChannelCapacity
    /\ ~m_buffer_channel.closed

----------------------------------------------------------------------------
(***************************************************************************)
(* Properties: shared state of the two loops, runtime failures             *)
(***************************************************************************)

\* C11: the producer side and the accumulation loop share no mutable state but
\* the handoff channel: while both loops are running, no execution stream has
\* had work put on it by both of them.
C11_NoSharedStream ==
    (upstream = "active" /\ reader_pc # "done") =>
        \A x, y \in stream_work : x.stream = y.stream => x.loop = y.loop

\* C12: a runtime failure is fatal and visible downstream: once a stream
\* synchronization or a device allocation has failed, the cycle emits no batch,
\* the loop has ended, and the downstream observer has received the error.
C12_RuntimeFailureFatal ==
    fault # "none" =>
        /\ src_pc = "done"
        /\ cyc.emits = 0
        /\ src_downstream.last = "error"

----------------------------------------------------------------------------
(***************************************************************************)
(* Properties: construction, steering and teardown of the hardware objects *)
(***************************************************************************)

NoHardware ==
    /\ \A o \in DOMAIN hw_objs : hw_objs[o] \in { "none", "destroyed" }
    /\ m_pipe.state # "created"
    /\ m_root_pipe.state # "created"

\* C13: construction is all-or-nothing: when the construction of the stage has
\* failed, no hardware object and no pipe that a constructor had created is left.
C13_ConstructionAllOrNothing == hw_pc = "failed" => NoHardware

\* C14: a filter that does not parse fails the construction before any hardware
\* resource is acquired: no object and no pipe is ever created, no hardware call
\* is made, and the constructor only throws.
C14_MalformedFilterAcquiresNothing ==
    source_ip = "nullopt" =>
        /\ \A o \in DOMAIN hw_objs : hw_objs[o] = "none"
        /\ m_pipe = NoPipe /\ m_root_pipe = NoPipe
        /\ holders = { }
        /\ \A i \in 1 .. Len(hw_log) : hw_log[i].call = "throw"
        /\ hw_pc \in { "check", "release", "failed" }

\* a filter of four lexemes and more that does not parse has failed the construction
C14_Witness ==
    /\ hw_pc = "failed"
    /\ source_ip = "nullopt"
    /\ Len(source_ip_filter) >= 4

\* C15: steering honours the filter: once the stage is built with a filter, a
\* packet reaches the receive queue only if it is IPv4, TCP and from the
\* filter's source address.
C15_SteeringHonoursFilter ==
    (hw_pc = "built" /\ source_ip_filter # << >>) =>
        \A pkt \in Packets :
            Steer(pkt) = "rss_rxq" =>
                /\ pkt.l3 = "IP4"
                /\ pkt.l4 = "TCP"
                /\ pkt.src_ip = source_ip

\* the calls of the DocaRxPipe constructor, in the order of the code
FlowCalls == << "pipe_create_basic", "add_placeholder", "process_placeholder",
                "pipe_create_root", "add_root_entry", "process_root" >>

IsFlowCall(e) == \E k \in 1 .. Len(FlowCalls) : FlowCalls[k] = e.call

\* C16: the DocaRxPipe constructor creates the basic pipe, adds one placeholder
\* entry and commits it, creates the root pipe, adds one root entry and commits
\* it, in this order and each step only after the one before has succeeded; when
\* it is done each pipe holds exactly one committed entry, and the placeholder is
\* committed whenever the root pipe exists.
C16_ConstructionOrder ==
    LET made == SelectSeq(hw_log, IsFlowCall) IN
    /\ Len(made) <= Len(FlowCalls)
    /\ \A i \in 1 .. Len(made) :
         /\ made[i].call = FlowCalls[i]
         /\ (i < Len(made) => made[i].status = "DOCA_SUCCESS")
    /\ (hw_pc = "built" =>
          /\ Len(made) = Len(FlowCalls)
          /\ m_pipe.entries = 1 /\ m_pipe.committed = 1
          /\ Len(m_root_pipe.entries) = 1 /\ m_root_pipe.committed = 1
          /\ m_root_pipe.entries[1].next_pipe = "m_pipe")
    /\ (m_root_pipe.state = "created" =>
          m_pipe.state = "created" /\ m_pipe.committed = 1)

\* the constructor has made all six calls
C16_Witness == hw_pc = "built" /\ m_root_pipe.committed = 1

C18_RootDestroyedFirst ==
    ~(m_root_pipe.state = "created" /\ m_pipe.state = "destroyed")

\* ~DocaRxPipe has destroyed one pipe and not yet the other
C18_Witness == hw_pc = "rxpipe_dtor_second"

\* C19: lifetimes are nested: the Context exists whenever the ReceiveQueue, the
\* SemaphoreRing or the FlowPipe exists, the ReceiveQueue exists whenever the
\* FlowPipe exists, and none of them is created before what it depends on.
C19_NestedLifetimes ==
    /\ \A o \in { "rxq", "semaphore", "rxpipe" } :
         /\ (hw_objs[o] \in { "live", "constructing" } => hw_objs["context"] = "live")
         /\ (hw_objs[o] # "none" => hw_objs["context"] # "none")
    /\ (hw_objs["rxpipe"] \in { "live", "constructing" } => hw_objs["rxq"] = "live")
    /\ (hw_objs["rxpipe"] # "none" => hw_objs["rxq"] # "none")

\* a stage that was built has been destroyed, the Context last
C19_Witness ==
    /\ hw_pc = "destroyed"
    /\ \A o \in DOMAIN hw_objs : hw_objs[o] = "destroyed"

----------------------------------------------------------------------------
(***************************************************************************)
(* Properties: ownership of the packet buffers                             *)
(***************************************************************************)

\* the number of places of a sequence that hold the buffer b
Occurrences(seq, b) == Cardinality({ i \in DOMAIN seq : seq[i] = b })

\* the buffers on_raw_packet_message has built so far
BuiltBuffers ==
    { written[i] : i \in DOMAIN written }
        \cup (IF packet_buffer = NoBuffer THEN { } ELSE { packet_buffer })

\* how many of producer, channel and pending list hold the buffer b
HeldBy(b) ==
    (IF packet_buffer = b THEN 1 ELSE 0)
        + Occurrences(m_buffer_channel.q, b)
        + Occurrences(packets, b)

\* the buffer b has been read and handed to concat_packet_buffers
Concatenated(b) ==
    /\ \E i \in DOMAIN read_log : read_log[i].buf = b
    /\ Occurrences(packets, b) = 0

\* C20: exclusive ownership: every buffer built is held by exactly one of the
\* producer, the channel and the pending list until it is concatenated into a
\* batch, and by none of them afterwards; a batch of one buffer is that buffer
\* itself, and every read buffer went into at most one batch.
C20_ExclusiveOwnership ==
    /\ \A b \in BuiltBuffers : HeldBy(b) = (IF Concatenated(b) THEN 0 ELSE 1)
    /\ \A i, j \in DOMAIN written : written[i] = written[j] => i = j
    /\ \A w \in 1 .. window :
         (Len(WinReads(w)) = 1 /\ WinEmits(w) # << >>) => WinEmits(w)[1] = WinReads(w)[1]

\* a batch of two buffers has been sent, and the producer holds a third buffer
\* that is waiting for the channel
C20_Witness ==
    /\ \E i \in DOMAIN emit_log : Len(WinReads(emit_log[i].win)) = 2
    /\ packet_buffer # NoBuffer
    /\ Len(written) = 2

----------------------------------------------------------------------------
(***************************************************************************)
(* Columns of the emitted tables                                           *)
(***************************************************************************)

Range(s) == { s[i] : i \in DOMAIN s }

BatchesDown == { i \in DOMAIN cv_downstream : cv_downstream[i].kind = "batch" }

\* C21: every batch emitted downstream is a table whose columns are exactly
\* timestamp, src_mac, dst_mac, src_ip, dst_ip, src_port, dst_port, packet_size,
\* tcp_flags, ether_type, next_proto_id, data, in that order, and every row of
\* the table has a value in each of them.  The source stage pushes these twelve
\* names; the batching stage pushes two.
C21_TwelveColumns ==
    \A i \in BatchesDown :
        /\ cv_downstream[i].schema = source_schema_info
        /\ \A r \in DOMAIN cv_downstream[i].table :
              DOMAIN cv_downstream[i].table[r] = Range(source_schema_info)

----------------------------------------------------------------------------
(***************************************************************************)
(* Errors of wrapped hardware calls                                        *)
(***************************************************************************)

\* the sequence sub stands somewhere in the sequence s
Contains(s, sub) ==
    \E k \in 0 .. (Len(s) - Len(sub)) : SubSeq(s, k + 1, k + Len(sub)) = sub

\* the statement number i of the constructor got a status that is not the
\* success code of its library
FailedCall(i) ==
    IF try_body[i].macro = "DOCA_TRY"
      THEN try_ran[i].status # "DOCA_SUCCESS"
      ELSE try_ran[i].status < 0

\* the status of the statement number i, as a number
NumericStatus(i) ==
    IF try_body[i].macro = "DOCA_TRY"
      THEN IF try_ran[i].status = "DOCA_SUCCESS" THEN 0 ELSE 7
      ELSE try_ran[i].status

\* C22: a wrapped hardware call raises an error if and only if its status is
\* not the success code (RTE_TRY: if and only if it is negative); the error
\* raised names the file and a line of the call and the numeric status, as
\* file:line: status; and no statement after the failing call executes.
C22_ErrorsCarryDiagnosis ==
    /\ (exception # NoException) <=> (\E i \in 1 .. Len(try_ran) : FailedCall(i))
    /\ \A i \in 1 .. Len(try_ran) :
          FailedCall(i) => /\ i = Len(try_ran)
                           /\ try_pc = "thrown"
                           /\ exception.type = (IF try_body[i].macro = "DOCA_TRY"
                                                  THEN "doca_error" ELSE "rte_error")
                           /\ \E line \in try_body[i].first .. try_body[i].last :
                                 Contains(exception.what,
                                          << try_body[i].file, ":" >> \o to_string(line)
                                          \o << ": " >> \o to_string(NumericStatus(i)))

\* an RTE call returned a negative status after one that returned a positive one
C22_Witness ==
    /\ try_pc = "thrown"
    /\ exception.type = "rte_error"
    /\ Len(try_ran) = 3
    /\ try_body[2].macro = "RTE_TRY"
    /\ try_ran[2].status = 1

----------------------------------------------------------------------------
(***************************************************************************)
(* MessageControl: config and payload                                      *)
(***************************************************************************)

\* C23: a default-constructed message's config() has none of the keys a config
\* supplies later (some_value, type, tasks); after MessageControl(config) or
\* msg.config(config) has returned, config() holds every top-level key of the
\* supplied config with the supplied value.  config(config) reads the keys
\* type, tasks and metadata and stores no other key.
C23_ConfigRoundTrip ==
    /\ (mc_last.op = "MessageControl()") =>
          \A k \in { "some_value", "type", "tasks" } :
              k \notin DOMAIN config_get(messages["msg"])
    /\ (mc_last.op \in { "MessageControl(config)", "config(config)" } /\ ~mc_last.threw) =>
          \A k \in DOMAIN mc_last.arg :
              /\ k \in DOMAIN config_get(messages["msg"])
              /\ config_get(messages["msg"])[k] = mc_last.arg[k]

\* C24: payload() is null on a new message; after payload(p), payload() returns
\* p, null included, until the next payload(q); reading the payload neither
\* clears nor changes it, whatever reads, writes and config calls came before.
C24_PayloadRoundTrip ==
    messages["msg"].alive =>
        /\ messages["msg"].m_payload = mc_written["msg"]
        /\ (mc_last.op = "payload()") => (mc_last.result = mc_written["msg"])

\* the payload meta_b is read for the second time in a row
C24_Witness ==
    /\ mc_last.op = "payload()"
    /\ mc_last.nth = 2
    /\ mc_last.result = "meta_b"

----------------------------------------------------------------------------
(***************************************************************************)
(* The cycle of the capture engine                                         *)
(***************************************************************************)

\* the positions of the loop after it has left the while loop for good
StoppedPositions == { "while", "destroy", "complete", "done" }

\* C25: the capture engine only follows Polling -> Polling (count = 0),
\* Polling -> Gathering -> Emitting -> Polling (count > 0) and Polling ->
\* Stopped.  Every emission comes in its cycle after exactly one gather, which
\* comes after exactly one receive that reported count > 0; and once the engine
\* has seen the exit flag set (it then unsubscribes its output) it makes no
\* receive-kernel call, no allocation, no gather, no cursor update and no
\* emission.
C25_EngineCycle ==
    /\ [](/\ cyc.gathers <= 1
          /\ cyc.emits <= cyc.gathers
          /\ (cyc.gathers = 1 \/ src_pc \in { "alloc", "gather", "advance", "emit" })
                => (cyc.recv /\ packet_count_d > 0)
          /\ (src_pc = "emit") => (cyc.gathers = 1 /\ cyc.emits = 0)
          /\ (~src_subscribed) => (src_pc \in StoppedPositions))
    /\ [][ /\ (cyc'.emits # cyc.emits /\ cyc'.emits # 0)
                => (src_pc = "emit" /\ src_pc' = "while" /\ cyc'.emits = 1)
           /\ (src_pc = "check_exit" /\ exit_condition = 1)
                => (~src_subscribed' /\ src_pc' = "while")
           /\ (~src_subscribed)
                => /\ cyc' = cyc
                   /\ out_bufs' = out_bufs
                   /\ semaphore_idx_d' = semaphore_idx_d
                   /\ packet_count_d' = packet_count_d
                   /\ src_downstream'.last \in { src_downstream.last, "completed" }
                   /\ src_pc' \in StoppedPositions ]_vars

\* the engine stopped on the exit flag right after a cycle that emitted a batch
C25_Witness ==
    /\ src_pc = "done"
    /\ exit_condition = 1
    /\ cyc.emits = 1
    /\ src_downstream.last = "batch"

----------------------------------------------------------------------------
(***************************************************************************)
(* The batching stage when its upstream ends                               *)
(***************************************************************************)

\* the positions in the downstream history of the events of one kind
EventsDown(kind) == { i \in DOMAIN cv_downstream : cv_downstream[i].kind = kind }

\* C26: when the upstream reports an error the stage forwards it downstream
\* exactly once, no batch reaches the downstream after it, and the accumulation
\* loop stops: buffer_reader starts no window after the error and terminates.
\* The error handler does not close the channel, so buffer_reader keeps running.
C26_UpstreamErrorStopsLoop ==
    /\ [](upstream = "errored" =>
            /\ Cardinality(EventsDown("error")) = 1
            /\ cv_downstream[Len(cv_downstream)].kind = "error")
    /\ [][upstream = "errored" => window' = window]_vars
    /\ (upstream = "errored") ~> (reader_pc = "done")

\* C27: once the handoff channel has been closed, buffer_reader starts no new
\* window and returns, and the join of the upstream-completion handler returns.
C27_ReaderTerminatesAfterClose ==
    /\ [][m_buffer_channel.closed => window' = window]_vars
    /\ m_buffer_channel.closed ~> (reader_pc = "done")
    /\ (prod_pc = "join") ~> (prod_pc = "joined")

\* the channel was closed in the middle of a window that had read a buffer;
\* the window was finished, its batch sent, and the join has returned
C27_Witness ==
    /\ prod_pc = "joined"
    /\ reader_pc = "done"
    /\ emit_log # << >>
    /\ emit_log[Len(emit_log)].win = window
    /\ m_buffer_channel.q # << >>

\* C28: after the upstream has completed the stage signals completion to its
\* downstream subscriber, exactly once and after the last batch: when the
\* completion handler has returned, the last thing the downstream has received
\* is its one completion.  No handler of the stage calls output.on_completed().
C28_CompletionPropagated ==
    (prod_pc = "joined" /\ cv_subscribed) =>
        /\ Cardinality(EventsDown("completed")) = 1
        /\ cv_downstream # << >>
        /\ cv_downstream[Len(cv_downstream)].kind = "completed"

----------------------------------------------------------------------------
(***************************************************************************)
(* Concatenation: totals, offsets and structure                            *)
(***************************************************************************)

BufferFields == { "m_header_buffer", "m_payload_buffer", "m_payload_sizes_buffer" }

\* the sum of the sizes of one field over the first n buffers of a list
RECURSIVE SizeUpTo(_, _, _)
SizeUpTo(bufs, field, n) ==
    IF n = 0 THEN 0 ELSE SizeUpTo(bufs, field, n - 1) + Len(bufs[n][field])

\* the buffer combined holds, in each field, source buffer i at the offset that
\* is the sum of the sizes of the buffers before it, and nothing else
FilledExactly(combined, srcs) ==
    /\ combined.m_num_packets = SumCounts(srcs)
    /\ \A field \in BufferFields :
          /\ Len(combined[field]) = SizeUpTo(srcs, field, Len(srcs))
          /\ \A i \in 1 .. Len(srcs) :
                /\ SizeUpTo(srcs, field, i) <= Len(combined[field])
                /\ SubSeq(combined[field], SizeUpTo(srcs, field, i - 1) + 1,
                          SizeUpTo(srcs, field, i)) = srcs[i][field]

\* C29: whenever buffer_reader calls concat_packet_buffers, the totals it passes
\* are the sums over the pending buffers of packet count, header bytes, payload
\* bytes and payload-size bytes (no buffer is pending when a window starts); the
\* combined buffer holds source buffer i at offset = the sum of the sizes of the
\* buffers before it, in each field, so the copied regions are disjoint, lie
\* inside the combined buffer and end at the totals.
C29_ConcatExact ==
    /\ reader_pc \in { "outer", "done" } => packets = << >>
    /\ reader_pc \in { "inner", "read", "flush" } =>
          /\ ttl.packets = SumCounts(packets)
          /\ ttl.header_bytes = SizeUpTo(packets, "m_header_buffer", Len(packets))
          /\ ttl.payload_bytes = SizeUpTo(packets, "m_payload_buffer", Len(packets))
          /\ ttl.payload_sizes_bytes =
                SizeUpTo(packets, "m_payload_sizes_buffer", Len(packets))
    /\ \A k \in 1 .. Len(emit_log) :
          FilledExactly(emit_log[k].buf, WinReads(emit_log[k].win))

\* a batch was concatenated from two buffers or more, the first and the last
\* of them with payload bytes
C29_Witness ==
    \E k \in 1 .. Len(emit_log) :
        LET srcs == WinReads(emit_log[k].win) IN
        /\ Len(srcs) >= 2
        /\ srcs[1].m_payload_buffer # << >>
        /\ srcs[Len(srcs)].m_payload_buffer # << >>

\* the three equalities of a packet buffer: four header bytes per packet, one
\* 32-bit payload size per packet, and as many payload bytes as the payload
\* sizes add up to
Structural(b) ==
    /\ Len(b.m_header_buffer) = b.m_num_packets * 4
    /\ Len(b.m_payload_sizes_buffer) = b.m_num_packets * 4
    /\ Len(b.m_payload_buffer) =
          SumSeq([k \in 1 .. b.m_num_packets |-> U32At(b.m_payload_sizes_buffer, k)])

\* C30: concatenation preserves the structural invariant.  If every source
\* buffer has header bytes = count * 4, one payload size per packet and payload
\* bytes = the sum of its payload sizes, the buffer concat_packet_buffers returns
\* has the same three equalities for the summed count, for one source and for
\* several.
C30_ConcatKeepsStructure ==
    (\A i \in 1 .. Len(cc_in) : Structural(cc_in[i])) =>
        /\ cc_pc \in { "all", "first", "done" } =>
              /\ Structural(cc_abc)
              /\ cc_abc.m_num_packets = SumCounts(cc_in)
        /\ cc_pc \in { "first", "done" } =>
              /\ Structural(cc_a)
              /\ cc_a.m_num_packets = cc_in[1].m_num_packets
        /\ cc_pc = "done" =>
              /\ Structural(cc_a_bc)
              /\ cc_a_bc.m_num_packets = SumCounts(cc_in)

\* one buffer of one packet was concatenated alone, and three buffers of more
\* than three packets with two payload bytes or more together
C30_Witness ==
    /\ cc_pc = "done"
    /\ cc_a.m_num_packets = 1
    /\ cc_abc.m_num_packets > 3
    /\ Len(cc_abc.m_payload_buffer) >= 2
    /\ Structural(cc_in[1]) /\ Structural(cc_in[2]) /\ Structural(cc_in[3])

----------------------------------------------------------------------------
(***************************************************************************)
(* The output buffers of a capture cycle                                   *)
(***************************************************************************)

PerPacketFields ==
    { "timestamp", "src_mac", "dst_mac", "src_ip", "dst_ip", "src_port", "dst_port",
      "data_size", "tcp_flags", "ether_type", "next_proto_id" }

\* C31: in every cycle that drained packets the payload offsets buffer has
\* count + 1 elements, its last element is the total of payload bytes the
\* receive kernel reported, the flat payload array has that many bytes, and
\* each per-packet field has count elements.
C31_OffsetsPrefixSum ==
    out_bufs.allocated =>
        /\ packet_count = packet_count_d
        /\ packet_count > 0
        /\ out_bufs.data_offsets = packet_count_d + 1
        /\ out_bufs.last_offset = packet_size_total_d
        /\ out_bufs.data = packet_size_total_d
        /\ \A f \in PerPacketFields : out_bufs[f] = packet_count_d

\* the buffers of a cycle of two packets with payload are ready to be emitted
C31_Witness ==
    /\ src_pc = "emit"
    /\ out_bufs.allocated
    /\ packet_count_d = 2
    /\ packet_size_total_d >= 1

----------------------------------------------------------------------------
(***************************************************************************)
(* Per-cycle receive bounds                                                *)
(***************************************************************************)

\* C32: the per-packet size array handed to the receive kernel has room for
\* MAX_PKT_RECEIVE packets and the raw packet-byte buffer for MAX_PKT_RECEIVE
\* packets of MAX_PKT_SIZE bytes, so a cycle that reports any count up to
\* MAX_PKT_RECEIVE stays inside both buffers.  The size array has 2048 entries.
C32_ReceiveWithinBuffers ==
    (rx_pc = "received" /\ rx_count <= MAX_PKT_RECEIVE) =>
        /\ rx_sizes_end <= packet_sizes_d_size
        /\ rx_bytes_end <= packet_buffer_d_size

----------------------------------------------------------------------------
(***************************************************************************)
(* Source-IP filter parsing                                                *)
(***************************************************************************)

\* a filter string that is exactly four dot-separated decimal octets in 0..255
FourOctets(f) ==
    /\ Len(f) = 7
    /\ \A i \in 1 .. 7 :
         IF i % 2 = 1 THEN f[i] >= 0 /\ f[i] <= 255 ELSE f[i] = DOT

\* C33: ip_to_int gives 0 for the empty string, the big-endian address for a
\* string of exactly four dot-separated octets in 0..255, and no value for
\* every other string, in which case the construction of the stage fails.
C33_FilterParsing ==
    hw_pc # "new" =>
        IF source_ip_filter = << >>
          THEN source_ip = << 0, 0, 0, 0 >>
          ELSE IF FourOctets(source_ip_filter)
                 THEN source_ip = << source_ip_filter[1], source_ip_filter[3], source_ip_filter[5], source_ip_filter[7] >>
                 ELSE /\ source_ip = "nullopt"
                      /\ hw_pc \in { "check", "release", "failed" }

----------------------------------------------------------------------------
(***************************************************************************)
(* MessageControl: the task lists                                          *)
(***************************************************************************)

\* the tasks a message holds under a type name, none for a name never used
TasksOf(m, task_type) ==
    IF task_type \in DOMAIN m.m_tasks THEN m.m_tasks[task_type] ELSE << >>

\* C34: add_task is exclusive in the control type.  A task of a known control
\* type added to a message that has no task type yet fixes the type; a task
\* whose known control type differs from the message's task type is refused
\* with an error and leaves the task lists, the task type and the config as
\* they were; a task of the same type or of an unknown type is appended at the
\* end of the list of its type name and nothing else changes.
C34_AddTaskExclusive ==
    mc_last.op = "add_task" =>
        LET before  == mc_last.before
            after   == messages[mc_last.slot]
            known   == control_type(mc_last.task_type)
        IN  IF known # "NONE" /\ before.m_cm_type # "NONE" /\ before.m_cm_type # known
              THEN /\ mc_last.threw
                   /\ after = before
              ELSE /\ ~mc_last.threw
                   /\ after.m_cm_type = (IF before.m_cm_type = "NONE" THEN known ELSE before.m_cm_type)
                   /\ after.m_config = before.m_config
                   /\ TasksOf(after, mc_last.task_type) = Append(TasksOf(before, mc_last.task_type), mc_last.task)
                   /\ \A t \in TaskTypeNames \ { mc_last.task_type } : TasksOf(after, t) = TasksOf(before, t)

\* a training task was refused by a message that holds an inference task
C34_Witness ==
    /\ mc_last.op = "add_task"
    /\ mc_last.threw
    /\ mc_last.task_type = "training"
    /\ has_task(messages[mc_last.slot], "inference")
    /\ messages[mc_last.slot].m_cm_type = "INFERENCE"

\* C35: the tasks of a type form a queue.  pop_task returns and removes the
\* oldest task of the type and leaves the tasks of the other types alone;
\* has_task(type) is true exactly when a task of the type remains; pop_task on
\* a type with no task left fails with an error and changes nothing.
C35_TaskQueue ==
    /\ \A slot \in Slots : \A t \in TaskTypeNames :
          messages[slot].alive =>
              (has_task(messages[slot], t) <=> Len(TasksOf(messages[slot], t)) >= 1)
    /\ mc_last.op = "pop_task" =>
          LET before == mc_last.before
              after  == messages[mc_last.slot]
          IN  IF TasksOf(before, mc_last.task_type) = << >>
                THEN /\ ~has_task(before, mc_last.task_type)
                     /\ mc_last.threw # "none"
                     /\ after = before
                ELSE /\ has_task(before, mc_last.task_type)
                     /\ mc_last.threw = "none"
                     /\ mc_last.result = TasksOf(before, mc_last.task_type)[1]
                     /\ TasksOf(before, mc_last.task_type) = << mc_last.result >> \o TasksOf(after, mc_last.task_type)
                     /\ \A t \in TaskTypeNames \ { mc_last.task_type } : TasksOf(after, t) = TasksOf(before, t)

\* of two different tasks of one type the older one was popped, the newer stays
C35_Witness ==
    /\ mc_last.op = "pop_task"
    /\ mc_last.threw = "none"
    /\ Len(TasksOf(mc_last.before, mc_last.task_type)) = 2
    /\ mc_last.result = "a"
    /\ TasksOf(messages[mc_last.slot], mc_last.task_type) = << "b" >>

\* C36: in every message, all tasks whose type name maps to a known control
\* type map to one control type, which is the task type of the message; a copy
\* has the task type of its original.  The copy constructor leaves m_cm_type out.
C36_TaskTypeInvariant ==
    /\ \A slot \in Slots : \A t \in TaskTypeNames :
          (messages[slot].alive /\ has_task(messages[slot], t) /\ control_type(t) # "NONE") =>
              messages[slot].m_cm_type = control_type(t)
    /\ mc_last.op = "copy" => messages["copy"].m_cm_type = messages["msg"].m_cm_type

----------------------------------------------------------------------------
(***************************************************************************)
(* Reader/writer exclusion on a data table                                 *)
(***************************************************************************)

\* the threads that hold a handle of the kind
TableInfos == { t \in TableThreads : dt_pc[t] = "TableInfo" }
MutableTableInfos == { t \in TableThreads : dt_pc[t] = "MutableTableInfo" }

\* C37: at every moment either at most one MutableTableInfo exists and no
\* TableInfo, or any number of TableInfo and no MutableTableInfo; a call of
\* get_info or get_mutable_info has not got past its lock while a conflicting
\* handle exists, and every handle owns the lock as long as it lives.
C37_ReaderWriterExclusion ==
    /\ Cardinality(MutableTableInfos) <= 1
    /\ MutableTableInfos # { } => TableInfos = { }
    /\ \A t \in TableThreads :
          /\ dt_pc[t] = "info_locked" => MutableTableInfos = { }
          /\ dt_pc[t] = "mutable_locked" => (TableInfos = { } /\ MutableTableInfos = { })
          /\ dt_pc[t] = "TableInfo" => t \in m_mutex.shared
          /\ dt_pc[t] = "MutableTableInfo" => m_mutex.unique = t

\* one thread holds the MutableTableInfo while a reader and a writer wait
C37_Witness ==
    /\ dt_pc["t1"] = "MutableTableInfo"
    /\ dt_pc["t2"] = "get_info"
    /\ dt_pc["t3"] = "get_mutable_info"

----------------------------------------------------------------------------
(***************************************************************************)
(* PreallocateStage                                                        *)
(***************************************************************************)

\* the ids of the messages sent downstream, in the order they were sent
RECURSIVE ForwardedIds(_)
ForwardedIds(out) ==
    IF out = << >> THEN << >>
    ELSE IF Head(out).kind = "on_next"
           THEN << Head(out).id >> \o ForwardedIds(Tail(out))
           ELSE ForwardedIds(Tail(out))

\* C38: the stage never holds the exclusive lock of a table while it calls
\* on_next: the missing columns of every message are inserted under the lock,
\* the lock is released and then the message is forwarded; every message is
\* forwarded once, in input order, and the error or the completion of the
\* upstream is forwarded downstream.
C38_ForwardedUnlocked ==
    /\ \A i \in 1 .. Len(pa_out) :
          pa_out[i].kind = "on_next" =>
              /\ pa_out[i].locked = { }
              /\ pa_out[i].inserted_locked
              /\ m_needed_columns \subseteq pa_out[i].columns
    /\ pa_pc = "wait" => ForwardedIds(pa_out) = [i \in 1 .. pa_received |-> i]
    /\ pa_pc # "wait" => ForwardedIds(pa_out) = [i \in 1 .. (pa_received - 1) |-> i]
    /\ pa_upstream = "errored" => pa_out[Len(pa_out)].kind = "on_error"
    /\ pa_upstream = "completed" => pa_out[Len(pa_out)].kind = "on_completed"

\* two messages were forwarded and then the upstream completed
C38_Witness ==
    /\ pa_upstream = "completed"
    /\ Len(pa_out) = 3
    /\ pa_out[2].kind = "on_next"
    /\ "c" \in pa_out[2].columns

----------------------------------------------------------------------------
(***************************************************************************)
(* Slices of a MultiResponseMessage                                        *)
(***************************************************************************)

\* C39: slicing composes.  m.get_slice(a, b).get_slice(c, d) stands for the
\* dataframe rows and the response-memory rows of m.get_slice(a + c, a + d); in
\* every message reached by get_slice count == mess_count and offset -
\* mess_offset is what it was in the original, so that get_output gives the
\* memory rows of the message's dataframe rows.  internal_get_slice sets the
\* memory offset to start and forgets the offset of the message it slices.
C39_SliceComposes ==
    /\ mr_cur.made =>
          /\ mr_cur.count = mr_cur.mess_count
          /\ mr_cur.offset - mr_cur.mess_offset = mr_orig.offset - mr_orig.mess_offset
    /\ Len(mr_slices) = 2 =>
          LET a == mr_slices[1][1]
              c == mr_slices[2][1]
              d == mr_slices[2][2]
              direct == get_slice(mr_orig, a + c, a + d)
          IN  /\ get_meta(mr_cur) = get_meta(direct)
              /\ get_output(mr_cur) = get_output(direct)

=============================================================================
